---------------------------- MODULE Spec2Model ----------------------------
(***************************************************************************)
(* BlunderLab: the move tree and its session cursor (src/src/tree.js), the *)
(* flat timeline with branch-on-edit (src/src/core.js, driven by the       *)
(* harness of src/src/integration.test.js) and the training controller     *)
(* (src/training.js, kept as src/unnamed/part_000).                        *)
(*                                                                         *)
(* The specifications share the variables: SpecTree and SpecShared (one    *)
(* and several sessions over a tree), SpecTimeline, SpecTraining,          *)
(* SpecStorage (the persistence half of src/src/tree.js), SpecApp (the     *)
(* move handlers of src/app.js), SpecPgn (the PGN import of                *)
(* src/unnamed/part_007), SpecStudies (its studies and their storage),     *)
(* SpecTrain (its training mode with the timers of the autoplay),          *)
(* SpecAutoplay (the autoplay left to itself, with fairness) and SpecPure  *)
(* (single calls of pure functions).  Each leaves the variables of the     *)
(* others at their initial values.                                         *)
(***************************************************************************)
EXTENDS Integers, Sequences, FiniteSets, TLC

VARIABLES
    nodeMove,       \* tree.js node.move, per node object
    nodeChildren,   \* tree.js node.children, per node object (array of references)
    path,           \* session.path, per session (array of references)
    treeRes,        \* what the last session operation returned
    fullLine,       \* timeline: the master line (verbose moves)
    viewPly,        \* timeline: the cursor
    game,           \* the chess.js instance: the moves applied since reset()
    tlRes,          \* what the last timeline operation returned
    studyColor,     \* training: the side the trainee plays
    trIn,           \* training: the arguments of the last handleTrainingMove call
    trCalls,        \* training: the callback calls the last call made, in order
    trRes,          \* training: what the last call returned
    appState,       \* persistence: the app state in memory
    storage,        \* persistence: what the storage holds under the key
    loaded,         \* persistence: what the last load returned or threw
    promoPick,      \* app: the pending promotion { from, to, squares } or null
    mode,           \* app: "edit" or "train"
    redoStack,      \* app: the moves undo stepped back over
    undoPath,       \* app, history: the session path each of those undos left
    appRes,         \* app: the last event handled, with what was pending then
    fullPgn,        \* timeline app: the PGN text of the master line
    pgnRes,         \* timeline app: what the last PGN import was given and returned
    timers,         \* timeline app: the setTimeout callbacks pending, in firing order
    autoplayTimer,  \* timeline app: the id of the timer stopAutoplay clears, or 0
    pendingOpponentStartAt, \* timeline app: how far ahead of now that time lies, or 0
    studies,        \* timeline app: the list of studies
    activeStudyId,  \* timeline app: the id of the study being worked on, or null
    localStorage,   \* timeline app: what the browser keeps under the three keys
    call            \* the last call of a pure function: name, arguments, outcome

treeVars  == <<nodeMove, nodeChildren, path, treeRes>>
tlVars    == <<fullLine, viewPly, game, tlRes>>
trVars    == <<studyColor, trIn, trCalls, trRes>>
stVars    == <<appState, storage, loaded>>
appVars   == <<promoPick, mode, redoStack, undoPath, appRes>>
tmVars    == <<timers, autoplayTimer, pendingOpponentStartAt>>
sdVars    == <<studies, activeStudyId, localStorage>>
pgnVars   == <<fullPgn, pgnRes, tmVars, sdVars>>
vars      == <<nodeMove, nodeChildren, path, treeRes, fullLine, viewPly, game,
               tlRes, studyColor, trIn, trCalls, trRes, appState, storage, loaded,
               promoPick, mode, redoStack, undoPath, appRes, fullPgn, pgnRes,
               timers, autoplayTimer, pendingOpponentStartAt,
               studies, activeStudyId, localStorage, call>>

-----------------------------------------------------------------------------
(* Bounds *)

\* node objects that can be alive at once, besides the root
MaxNodes == 3
\* sessions made over one shared root
MaxSessions == 2
\* moves the redo stack of the app may hold
MaxRedo == 1
\* node objects besides the root the tree of the app may hold at a time
MaxAppNodes == 4
\* studies the stored list may hold
MaxStudies == 2
\* how far beyond [0, fullLine.length] a ply argument may lie
PlySlack == 2
\* the longest line a PGN import brings in
MaxPgnLine == 2
\* the longest line a training session starts from
MaxStartLine == 3

-----------------------------------------------------------------------------
(* Values *)

\* JavaScript's undefined (an absent promotion field) and null
Undefined == "undefined"
Null      == "null"

Min(a, b) == IF a <= b THEN a ELSE b
Max(a, b) == IF a >= b THEN a ELSE b

MoveObj(f, t, p) == [from |-> f, to |-> t, promotion |-> p]

\* the root's move: null
NullMove == MoveObj(Null, Null, Null)
\* "no node": the null of find(...) || null
NoNode == 0 - 1

sameMove(a, b) ==
    a.from = b.from /\ a.to = b.to /\ a.promotion = b.promotion

-----------------------------------------------------------------------------
(* The move tree and its sessions: src/src/tree.js *)

Root     == 0
NodeIds  == DOMAIN nodeMove
\* the sessions that exist: one in the app, several where a tree is shared
Sessions == DOMAIN path

\* the move objects handed to the session operations
TreeMoves ==
    { MoveObj("e2", "e4", Undefined),
      MoveObj("a7", "a8", Undefined),
      MoveObj("a7", "a8", "q") }

\* the least element of a non-empty set of indices
Least(S) == CHOOSE i \in S : \A j \in S : i <= j

\* Array.prototype.indexOf by reference, 1-based; 0 stands for -1
IndexOf(s, x) ==
    LET hits == { i \in 1..Len(s) : s[i] = x }
    IN  IF hits = {} THEN 0 ELSE Least(hits)

RemoveAt(s, i) == SubSeq(s, 1, i - 1) \o SubSeq(s, i + 1, Len(s))

Last(s)    == s[Len(s)]
Pop(s)     == SubSeq(s, 1, Len(s) - 1)
Range(s)   == { s[i] : i \in 1..Len(s) }

currentNode(s) == Last(path[s])

\* cur.children.find((c) => c.move && sameMove(c.move, moveObj)) || null
findChild(children, moves, cur, moveObj) ==
    LET hits == { i \in 1..Len(children[cur]) :
                      /\ moves[children[cur][i]] # NullMove
                      /\ sameMove(moves[children[cur][i]], moveObj) }
    IN  IF hits = {} THEN NoNode ELSE children[cur][Least(hits)]

isExpectedMove(s, moveObj) ==
    \E i \in 1..Len(nodeChildren[currentNode(s)]) :
        LET c == nodeChildren[currentNode(s)][i]
        IN  nodeMove[c] # NullMove /\ sameMove(nodeMove[c], moveObj)

\* the node objects something still refers to: the root, the path entries and
\* whatever hangs below them
RECURSIVE Below(_, _, _)
Below(children, S, n) ==
    IF n = 0 THEN S
    ELSE Below(children, S \cup UNION { Range(children[x]) : x \in S }, n - 1)

Live(children, paths) ==
    Below(children, {Root} \cup UNION { Range(paths[s]) : s \in DOMAIN paths },
          Cardinality(DOMAIN children) - 1)

\* an object nothing refers to is gone: its slot is blank
Collect(f, blank, children, paths) ==
    LET live == Live(children, paths)
    IN  [n \in NodeIds |-> IF n \in live THEN f[n] ELSE blank]

\* the object a session operation returns: { ok, reason?, created?, node? }, with
\* the operation kept beside it
Result(op, ok, reason, created, node) ==
    [op |-> op, ok |-> ok, reason |-> reason, created |-> created, node |-> node]

TreeIdle ==
    /\ nodeMove = [n \in 0..MaxNodes |-> NullMove]
    /\ nodeChildren = [n \in 0..MaxNodes |-> <<>>]
    /\ path = [s \in {1} |-> <<Root>>]
    /\ treeRes = Result("createTreeSession", TRUE, "", FALSE, Root)

\* createRoot() and createTreeSession(root)
createTreeSession == TreeIdle

\* const root = createRoot(), then createTreeSession(root) once per session:
\* every session starts at the one root
createSharedSessions ==
    /\ nodeMove = [n \in 0..MaxNodes |-> NullMove]
    /\ nodeChildren = [n \in 0..MaxNodes |-> <<>>]
    /\ path = [s \in 1..MaxSessions |-> <<Root>>]
    /\ treeRes = Result("createTreeSession", TRUE, "", FALSE, Root)

\* goBack that also unlinks the node it leaves when that node is a leaf
goBackPrunes(s) ==
    IF Len(path[s]) <= 1
    THEN /\ treeRes' = Result("goBack", FALSE, "at-root", FALSE, NoNode)
         /\ UNCHANGED <<nodeMove, nodeChildren, path>>
    ELSE LET parent == path[s][Len(path[s]) - 1]
             cur    == path[s][Len(path[s])]
             idx    == IndexOf(nodeChildren[parent], cur)
             ch     == IF Len(nodeChildren[cur]) = 0 /\ idx > 0
                       THEN [nodeChildren EXCEPT ![parent] = RemoveAt(@, idx)]
                       ELSE nodeChildren
             pa     == [path EXCEPT ![s] = Pop(@)]
         IN  /\ nodeChildren' = Collect(ch, <<>>, ch, pa)
             /\ nodeMove' = Collect(nodeMove, NullMove, ch, pa)
             /\ path' = pa
             /\ treeRes' = Result("goBack", TRUE, "", FALSE, NoNode)

\* the node left may have been unlinked by another session: then the path
\* held the last reference to it
goBack(s) ==
    IF Len(path[s]) <= 1
    THEN /\ treeRes' = Result("goBack", FALSE, "at-root", FALSE, NoNode)
         /\ UNCHANGED <<nodeMove, nodeChildren, path>>
    ELSE LET pa == [path EXCEPT ![s] = Pop(@)]
         IN  /\ path' = pa
             /\ treeRes' = Result("goBack", TRUE, "", FALSE, NoNode)
             /\ nodeChildren' = Collect(nodeChildren, <<>>, nodeChildren, pa)
             /\ nodeMove' = Collect(nodeMove, NullMove, nodeChildren, pa)

\* goForwardIfExists following the first child whatever its move
goForwardFirstChild(s, moveObj) ==
    LET cur  == currentNode(s)
        next == IF Len(nodeChildren[cur]) = 0 THEN NoNode ELSE nodeChildren[cur][1]
    IN  IF next = NoNode
        THEN /\ treeRes' = Result("goForwardIfExists", FALSE, "no-such-child",
                                   FALSE, NoNode)
             /\ UNCHANGED <<nodeMove, nodeChildren, path>>
        ELSE /\ path' = [path EXCEPT ![s] = Append(@, next)]
             /\ treeRes' = Result("goForwardIfExists", TRUE, "", FALSE, next)
             /\ UNCHANGED <<nodeMove, nodeChildren>>

goForwardIfExists(s, moveObj) ==
    LET next == findChild(nodeChildren, nodeMove, currentNode(s), moveObj)
    IN  IF next = NoNode
        THEN /\ treeRes' = Result("goForwardIfExists", FALSE, "no-such-child",
                                   FALSE, NoNode)
             /\ UNCHANGED <<nodeMove, nodeChildren, path>>
        ELSE /\ path' = [path EXCEPT ![s] = Append(@, next)]
             /\ treeRes' = Result("goForwardIfExists", TRUE, "", FALSE, next)
             /\ UNCHANGED <<nodeMove, nodeChildren>>

resetSessionToRoot(s) ==
    LET pa == [path EXCEPT ![s] = <<Root>>]
    IN  /\ path' = pa
        /\ treeRes' = Result("resetSessionToRoot", TRUE, "", FALSE, NoNode)
        /\ nodeChildren' = Collect(nodeChildren, <<>>, nodeChildren, pa)
        /\ nodeMove' = Collect(nodeMove, NullMove, nodeChildren, pa)

\* addVariationAndGo without the lookup of an existing child
addVariationAlwaysNew(s, moveObj) ==
    LET cur == currentNode(s)
    IN  /\ NodeIds \ Live(nodeChildren, path) # {}
        /\ LET child == Least(NodeIds \ Live(nodeChildren, path))
           IN  /\ nodeMove' = [nodeMove EXCEPT ![child] = moveObj]
               /\ nodeChildren' = [nodeChildren EXCEPT ![cur] = Append(@, child),
                                                       ![child] = <<>>]
               /\ path' = [path EXCEPT ![s] = Append(@, child)]
               /\ treeRes' = Result("addVariationAndGo", TRUE, "", TRUE, child)

\* addVariationAndGo pushing the new child on the path but not on cur.children
addVariationNotLinked(s, moveObj) ==
    LET cur == currentNode(s)
        existing == findChild(nodeChildren, nodeMove, cur, moveObj)
    IN  IF existing # NoNode
        THEN /\ path' = [path EXCEPT ![s] = Append(@, existing)]
             /\ treeRes' = Result("addVariationAndGo", TRUE, "", FALSE, existing)
             /\ UNCHANGED <<nodeMove, nodeChildren>>
        ELSE /\ NodeIds \ Live(nodeChildren, path) # {}
             /\ LET child == Least(NodeIds \ Live(nodeChildren, path))
                IN  /\ nodeMove' = [nodeMove EXCEPT ![child] = moveObj]
                    /\ nodeChildren' = [nodeChildren EXCEPT ![child] = <<>>]
                    /\ path' = [path EXCEPT ![s] = Append(@, child)]
                    /\ treeRes' = Result("addVariationAndGo", TRUE, "", TRUE, child)

addVariationAndGo(s, moveObj) ==
    LET cur == currentNode(s)
        existing == findChild(nodeChildren, nodeMove, cur, moveObj)
    IN  IF existing # NoNode
        THEN /\ path' = [path EXCEPT ![s] = Append(@, existing)]
             /\ treeRes' = Result("addVariationAndGo", TRUE, "", FALSE, existing)
             /\ UNCHANGED <<nodeMove, nodeChildren>>
        ELSE \* createNode(moveObj): a fresh object, here the lowest free slot
             /\ NodeIds \ Live(nodeChildren, path) # {}
             /\ LET child == Least(NodeIds \ Live(nodeChildren, path))
                IN  /\ nodeMove' = [nodeMove EXCEPT ![child] = moveObj]
                    /\ nodeChildren' = [nodeChildren EXCEPT ![cur] = Append(@, child),
                                                            ![child] = <<>>]
                    /\ path' = [path EXCEPT ![s] = Append(@, child)]
                    /\ treeRes' = Result("addVariationAndGo", TRUE, "", TRUE, child)

\* deleteCurrentAndGoParent without the leaf-only restriction
deleteCurrentWithChildren(s) ==
    IF Len(path[s]) <= 1
    THEN /\ treeRes' = Result("deleteCurrentAndGoParent", FALSE, "at-root", FALSE, NoNode)
         /\ UNCHANGED <<nodeMove, nodeChildren, path>>
    ELSE LET parent == path[s][Len(path[s]) - 1]
             cur    == path[s][Len(path[s])]
             idx    == IndexOf(nodeChildren[parent], cur)
         IN  IF idx = 0
             THEN /\ treeRes' = Result("deleteCurrentAndGoParent", FALSE, "not-a-child", FALSE, NoNode)
                  /\ UNCHANGED <<nodeMove, nodeChildren, path>>
             ELSE LET ch == [nodeChildren EXCEPT ![parent] = RemoveAt(@, idx)]
                      pa == [path EXCEPT ![s] = Pop(@)]
                  IN  /\ nodeChildren' = Collect(ch, <<>>, ch, pa)
                      /\ nodeMove' = Collect(nodeMove, NullMove, ch, pa)
                      /\ path' = pa
                      /\ treeRes' = Result("deleteCurrentAndGoParent", TRUE, "", FALSE, cur)

\* deleteCurrentAndGoParent splicing out the parent's first child instead of
\* the current node
deleteFirstSibling(s) ==
    IF Len(path[s]) <= 1
    THEN /\ treeRes' = Result("deleteCurrentAndGoParent", FALSE, "at-root", FALSE, NoNode)
         /\ UNCHANGED <<nodeMove, nodeChildren, path>>
    ELSE LET parent == path[s][Len(path[s]) - 1]
             cur    == path[s][Len(path[s])]
             idx    == IndexOf(nodeChildren[parent], cur)
         IN  IF Len(nodeChildren[cur]) > 0
             THEN /\ treeRes' = Result("deleteCurrentAndGoParent", FALSE, "has-children", FALSE, NoNode)
                  /\ UNCHANGED <<nodeMove, nodeChildren, path>>
             ELSE IF idx = 0
             THEN /\ treeRes' = Result("deleteCurrentAndGoParent", FALSE, "not-a-child", FALSE, NoNode)
                  /\ UNCHANGED <<nodeMove, nodeChildren, path>>
             ELSE LET ch == [nodeChildren EXCEPT ![parent] = RemoveAt(@, 1)]
                      pa == [path EXCEPT ![s] = Pop(@)]
                  IN  /\ nodeChildren' = Collect(ch, <<>>, ch, pa)
                      /\ nodeMove' = Collect(nodeMove, NullMove, ch, pa)
                      /\ path' = pa
                      /\ treeRes' = Result("deleteCurrentAndGoParent", TRUE, "", FALSE, cur)

\* deleteCurrentAndGoParent refusing a node with children after it has moved
\* the cursor to the parent
deleteRefusedPops(s) ==
    IF Len(path[s]) <= 1
    THEN /\ treeRes' = Result("deleteCurrentAndGoParent", FALSE, "at-root", FALSE, NoNode)
         /\ UNCHANGED <<nodeMove, nodeChildren, path>>
    ELSE LET parent == path[s][Len(path[s]) - 1]
             cur    == path[s][Len(path[s])]
             idx    == IndexOf(nodeChildren[parent], cur)
         IN  IF Len(nodeChildren[cur]) > 0
             THEN /\ treeRes' = Result("deleteCurrentAndGoParent", FALSE, "has-children", FALSE, NoNode)
                  /\ path' = [path EXCEPT ![s] = Pop(@)]
                  /\ UNCHANGED <<nodeMove, nodeChildren>>
             ELSE IF idx = 0
             THEN /\ treeRes' = Result("deleteCurrentAndGoParent", FALSE, "not-a-child", FALSE, NoNode)
                  /\ UNCHANGED <<nodeMove, nodeChildren, path>>
             ELSE LET ch == [nodeChildren EXCEPT ![parent] = RemoveAt(@, idx)]
                      pa == [path EXCEPT ![s] = Pop(@)]
                  IN  /\ nodeChildren' = Collect(ch, <<>>, ch, pa)
                      /\ nodeMove' = Collect(nodeMove, NullMove, ch, pa)
                      /\ path' = pa
                      /\ treeRes' = Result("deleteCurrentAndGoParent", TRUE, "", FALSE, cur)

deleteCurrentAndGoParent(s) ==
    IF Len(path[s]) <= 1
    THEN /\ treeRes' = Result("deleteCurrentAndGoParent", FALSE, "at-root", FALSE, NoNode)
         /\ UNCHANGED <<nodeMove, nodeChildren, path>>
    ELSE LET parent == path[s][Len(path[s]) - 1]
             cur    == path[s][Len(path[s])]
             idx    == IndexOf(nodeChildren[parent], cur)
         IN  IF Len(nodeChildren[cur]) > 0
             THEN /\ treeRes' = Result("deleteCurrentAndGoParent", FALSE, "has-children", FALSE, NoNode)
                  /\ UNCHANGED <<nodeMove, nodeChildren, path>>
             ELSE IF idx = 0
             THEN /\ treeRes' = Result("deleteCurrentAndGoParent", FALSE, "not-a-child", FALSE, NoNode)
                  /\ UNCHANGED <<nodeMove, nodeChildren, path>>
             ELSE LET ch == [nodeChildren EXCEPT ![parent] = RemoveAt(@, idx)]
                      pa == [path EXCEPT ![s] = Pop(@)]
                  IN  /\ nodeChildren' = Collect(ch, <<>>, ch, pa)
                      /\ nodeMove' = Collect(nodeMove, NullMove, ch, pa)
                      /\ path' = pa
                      /\ treeRes' = Result("deleteCurrentAndGoParent", TRUE, "", FALSE, cur)


-----------------------------------------------------------------------------
(* The move validator: the chess.js instance `game`.  The library is not   *)
(* part of the repository; it is kept as a small board on which legality   *)
(* depends on the position: a piece moves only from the square it stands   *)
(* on, only when its side is to move, a pawn pushes only to an empty       *)
(* square and captures only an enemy piece.                                *)

Squares == {"e2", "e4", "d2", "d4", "g1", "f3", "e7", "e5", "d7", "d5"}

\* new Chess() / game.reset(): the pieces this board follows
StartPosition ==
    [sq \in Squares |->
        IF sq \in {"e2", "d2", "g1"} THEN "w"
        ELSE IF sq \in {"e7", "d7"} THEN "b" ELSE "-"]

\* how the followed pieces move: <<from, to, kind, SAN>>
Geometry ==
    { <<"e2", "e4", "push", "e4">>,    <<"d2", "d4", "push", "d4">>,
      <<"g1", "f3", "piece", "Nf3">>,  <<"e7", "e5", "push", "e5">>,
      <<"d7", "d5", "push", "d5">>,    <<"e4", "d5", "capture", "exd5">>,
      <<"d5", "e4", "capture", "dxe4">> }

\* the move objects a board or a test hands in: { from, to }
BoardMoves == { MoveObj(g[1], g[2], Undefined) : g \in Geometry }

\* a verbose move of game.history({ verbose: true })
Verbose(f, t, p, san) == [from |-> f, to |-> t, promotion |-> p, san |-> san]
NoVerbose == Verbose(Null, Null, Null, Null)

Turn(hist) == IF Len(hist) % 2 = 0 THEN "w" ELSE "b"
Other(c)   == IF c = "w" THEN "b" ELSE "w"

RECURSIVE PositionAfter(_)
PositionAfter(hist) ==
    IF hist = <<>> THEN StartPosition
    ELSE LET before == PositionAfter(Pop(hist))
             m      == Last(hist)
         IN  [before EXCEPT ![m.from] = "-", ![m.to] = Turn(Pop(hist))]

\* the legal moves of the position, as chess.js generates them
LegalGeometry(hist) ==
    LET pos == PositionAfter(hist)
        me  == Turn(hist)
    IN  { g \in Geometry :
            /\ pos[g[1]] = me
            /\ g[3] = "push" => pos[g[2]] = "-"
            /\ g[3] = "capture" => pos[g[2]] = Other(me)
            /\ g[3] = "piece" => pos[g[2]] # me }

IsLegal(hist, m) ==
    \E g \in LegalGeometry(hist) :
        g[1] = m.from /\ g[2] = m.to /\ m.promotion = Undefined

\* game.move(m): the applied verbose move and the new history; an illegal move
\* throws (chess.js 1.x) and leaves the game as it was
GameMove(hist, m) ==
    IF IsLegal(hist, m)
    THEN LET g  == CHOOSE x \in Geometry : x[1] = m.from /\ x[2] = m.to
             mv == Verbose(m.from, m.to, Undefined, g[4])
         IN  [threw |-> FALSE, mv |-> mv, game |-> Append(hist, mv)]
    ELSE [threw |-> TRUE, mv |-> NoVerbose, game |-> hist]

\* every line of at most n moves that can be played from the start
RECURSIVE LegalLines(_)
LegalLines(n) ==
    IF n = 0 THEN { <<>> }
    ELSE LET shorter == LegalLines(n - 1)
         IN  shorter \cup
             { GameMove(l, m).game : l \in { x \in shorter : Len(x) = n - 1 },
                                     m \in BoardMoves }

-----------------------------------------------------------------------------
(* The timeline helpers: src/src/core.js *)

clamp(n, lo, hi) == Max(lo, Min(hi, n))

\* clampPly without the lower bound
clampPlyNoFloor(ply, len) == Min(len, ply)

clampPly(ply, len) == Max(0, Min(len, ply))

nextViewPly(ply, delta, lineLength) == clamp(ply + delta, 0, lineLength)

\* branchLineIfNeeded cutting one move too many
branchLineOffByOne(line, ply) ==
    LET p == clamp(ply, 0, Len(line))
    IN  IF p >= Len(line)
        THEN [newLine |-> line, basePly |-> Len(line), cut |-> FALSE]
        ELSE LET newLine == SubSeq(line, 1, Max(p - 1, 0))
             IN  [newLine |-> newLine, basePly |-> Len(newLine), cut |-> TRUE]

\* branchLineIfNeeded taking the ply as it comes
branchLineUnclamped(line, ply) ==
    IF ply >= Len(line)
    THEN [newLine |-> line, basePly |-> Len(line), cut |-> FALSE]
    ELSE [newLine |-> SubSeq(line, 1, ply), basePly |-> ply, cut |-> TRUE]

branchLineIfNeeded(line, ply) ==
    LET p == clamp(ply, 0, Len(line))
    IN  IF p >= Len(line)
        THEN [newLine |-> line, basePly |-> Len(line), cut |-> FALSE]
        ELSE LET newLine == SubSeq(line, 1, p)
             IN  [newLine |-> newLine, basePly |-> Len(newLine), cut |-> TRUE]

\* computeLastMove reading the entry before the one the cursor has passed
computeLastMoveOffByOne(line, ply) ==
    LET p == clampPly(ply, Len(line))
    IN  IF p <= 1 THEN <<Null, Null>> ELSE <<line[p - 1].from, line[p - 1].to>>

\* [from, to] as a pair; null as the pair of nulls
computeLastMove(line, ply) ==
    LET p == clampPly(ply, Len(line))
    IN  IF p <= 0 THEN <<Null, Null>> ELSE <<line[p].from, line[p].to>>

applyJump(ply, targetPly, len) == clampPly(targetPly, len)

applyCommit(newFullLine) ==
    [viewPly |-> Len(newFullLine),
     lastMove |-> computeLastMove(newFullLine, Len(newFullLine))]

applyEditInPast(line, ply) ==
    LET r == branchLineIfNeeded(line, ply)
    IN  [line |-> r.newLine, viewPly |-> r.basePly]

-----------------------------------------------------------------------------
(* The timeline: createHarness of src/src/integration.test.js.  Its        *)
(* functions are state transformers on [fullLine, viewPly, game].          *)

Timeline(line, ply, hist) == [fullLine |-> line, viewPly |-> ply, game |-> hist]

Now == Timeline(fullLine, viewPly, game)

\* the plies a caller may ask for: any integer around the line
Plies == (0 - PlySlack)..(Cardinality(Geometry) + PlySlack)

\* game.reset() and the replay loop; a move the game rejects throws out of it
RECURSIVE Replay(_, _, _)
Replay(line, p, i) ==
    IF i >= p THEN [threw |-> FALSE, game |-> SubSeq(line, 1, p)]
    ELSE IF IsLegal(SubSeq(line, 1, i), line[i + 1])
         THEN Replay(line, p, i + 1)
         ELSE [threw |-> TRUE, game |-> SubSeq(line, 1, i)]

commitFromGame(st) ==
    Timeline(st.game, applyCommit(st.game).viewPly, st.game)

\* setGameToPly taking the replayed game as the new master line
setGameToPlyCommits(st, ply) ==
    LET p == clampPly(ply, Len(st.fullLine))
        g == Replay(st.fullLine, p, 0).game
    IN  Timeline(g, p, g)

setGameToPly(st, ply) ==
    LET p == clampPly(ply, Len(st.fullLine))
    IN  Timeline(st.fullLine, p, Replay(st.fullLine, p, 0).game)

\* goToPly taking the ply as a step from the cursor
goToPlyRelative(st, ply) == setGameToPly(st, st.viewPly + ply)

goToPly(st, ply) == setGameToPly(st, ply)

goPrev(st) == goToPly(st, nextViewPly(st.viewPly, 0 - 1, Len(st.fullLine)))

goNext(st) == goToPly(st, nextViewPly(st.viewPly, 1, Len(st.fullLine)))

jumpTo(st, ply) == goToPly(st, applyJump(st.viewPly, ply, Len(st.fullLine)))

makeMove(st, moveObj) ==
    LET edited == applyEditInPast(st.fullLine, st.viewPly)
        cut    == IF Len(edited.line) # Len(st.fullLine)
                  THEN setGameToPly(Timeline(edited.line, st.viewPly, st.game),
                                    edited.viewPly)
                  ELSE st
        r      == GameMove(cut.game, moveObj)
    IN  IF r.threw
        THEN [st |-> cut, ret |-> NoVerbose]
        ELSE [st |-> commitFromGame(Timeline(cut.fullLine, cut.viewPly, r.game)),
              ret |-> r.mv]

\* game.loadPgn(pgn) of a line played from the start, then commitFromGame()
loadPgn(st, line) == commitFromGame(Timeline(st.fullLine, st.viewPly, line))

\* what the last call was, with its arguments, what it returned, and the cursor
\* and the length of the line when it was made
TlResult(op, ply, move, ret, at, len) ==
    [op |-> op, ply |-> ply, move |-> move, ret |-> ret, at |-> at, len |-> len]

TimelineIdle ==
    /\ fullLine = <<>>
    /\ viewPly = 0
    /\ game = <<>>
    /\ tlRes = TlResult("createHarness", 0, NullMove, NoVerbose, 0, 0)

\* createHarness(): new Chess(), empty line, commitFromGame()
createHarness == TimelineIdle

Becomes(st) ==
    /\ fullLine' = st.fullLine
    /\ viewPly' = st.viewPly
    /\ game' = st.game

MakeMove(moveObj) ==
    LET r == makeMove(Now, moveObj)
    IN  /\ Becomes(r.st)
        /\ tlRes' = TlResult("makeMove", 0, moveObj, r.ret, viewPly, Len(fullLine))

GoToPly(ply) ==
    /\ Becomes(goToPly(Now, ply))
    /\ tlRes' = TlResult("goToPly", ply, NullMove, NoVerbose, viewPly, Len(fullLine))

GoPrev ==
    /\ Becomes(goPrev(Now))
    /\ tlRes' = TlResult("goPrev", 0, NullMove, NoVerbose, viewPly, Len(fullLine))

GoNext ==
    /\ Becomes(goNext(Now))
    /\ tlRes' = TlResult("goNext", 0, NullMove, NoVerbose, viewPly, Len(fullLine))

JumpTo(ply) ==
    /\ Becomes(jumpTo(Now, ply))
    /\ tlRes' = TlResult("jumpTo", ply, NullMove, NoVerbose, viewPly, Len(fullLine))

LoadPgn(line) ==
    /\ Becomes(loadPgn(Now, line))
    /\ tlRes' = TlResult("loadPgn", Len(line), NullMove, NoVerbose, viewPly, Len(fullLine))

-----------------------------------------------------------------------------
(* The training controller: handleTrainingMove of src/training.js, called  *)
(* as the board's move handler calls it: with the current fullLine and     *)
(* viewPly as the snapshot and with callbacks that act on the timeline.    *)
(* Every callback call may throw instead of acting.                        *)

Colors == {"white", "black"}

\* the most callback calls one handleTrainingMove call makes
MaxCalls == 2

\* isUsersTurn(studyColor, viewPly): ply parity against the study colour
isUsersTurn(color, ply) ==
    IF color = "white" THEN ply % 2 = 0 ELSE ply % 2 = 1

\* expectedMove(fullLine, viewPly): the move at index viewPly, or null
expectedMove(line, ply) ==
    IF ply >= 0 /\ ply < Len(line) THEN line[ply + 1] ELSE NoVerbose

\* the makeMove callback: game.move(m) and commitFromGame(), null when the game
\* rejects the move
makeMoveCb(st, m) ==
    LET r == GameMove(st.game, m)
    IN  IF r.threw
        THEN [st |-> st, ret |-> NoVerbose]
        ELSE [st |-> commitFromGame(Timeline(st.fullLine, st.viewPly, r.game)),
              ret |-> r.mv]

\* the setGameToPly callback: cursor and game go to the clamped ply
setGameToPlyTrain(st, ply) ==
    LET target == clampPly(ply, Len(st.fullLine))
    IN  IF target = st.viewPly THEN st
        ELSE Timeline(st.fullLine, target, Replay(st.fullLine, target, 0).game)

\* one callback call as the controller sees it: the state after it, what it
\* returned, and the entry it leaves in the call log
Call(fn, arg, move, threw, ret) ==
    [fn |-> fn, arg |-> arg, move |-> move, threw |-> threw, ret |-> ret]

CallSetGameToPly(run, ply, faults) ==
    LET n     == Len(run.calls) + 1
        threw == n \in faults
    IN  [st    |-> IF threw THEN run.st ELSE setGameToPlyTrain(run.st, ply),
         calls |-> Append(run.calls, Call("setGameToPly", ply, NullMove, threw, NoVerbose)),
         threw |-> threw,
         ret   |-> NoVerbose]

CallMakeMove(run, m, faults) ==
    LET n     == Len(run.calls) + 1
        threw == n \in faults
        r     == makeMoveCb(run.st, m)
    IN  [st    |-> IF threw THEN run.st ELSE r.st,
         calls |-> Append(run.calls,
                          Call("makeMove", 0, m, threw, IF threw THEN NoVerbose ELSE r.ret)),
         threw |-> threw,
         ret   |-> IF threw THEN NoVerbose ELSE r.ret]

\* what handleTrainingMove hands back: null, true, the applied move, or the
\* exception that left it
Returned(kind, mv, run) == [kind |-> kind, mv |-> mv, st |-> run.st, calls |-> run.calls]

\* not the user's turn: restore the display, reject
rejectOffTurn(run0, ply, faults) ==
    Returned("null", NoVerbose, CallSetGameToPly(run0, ply, faults))

\* the expected move advancing one ply whether or not a reply is recorded
acceptExpectedOnePly(run0, line, ply, faults) ==
    LET adv == CallSetGameToPly(run0, ply + 1, faults)
    IN  IF adv.threw
        THEN Returned("null", NoVerbose, CallSetGameToPly(adv, ply, faults))
        ELSE Returned("true", NoVerbose, adv)

\* the expected move with a failed advance rejected without the restoring call
acceptExpectedNoRestore(run0, line, ply, faults) ==
    LET oppExpected == expectedMove(line, ply + 1)
        adv == IF oppExpected # NoVerbose
               THEN CallSetGameToPly(run0, ply + 2, faults)
               ELSE CallSetGameToPly(run0, ply + 1, faults)
    IN  IF adv.threw
        THEN Returned("null", NoVerbose, adv)
        ELSE Returned("true", NoVerbose, adv)

\* the expected move with a failing restoring call let through to the caller
acceptExpectedRethrows(run0, line, ply, faults) ==
    LET oppExpected == expectedMove(line, ply + 1)
        adv == IF oppExpected # NoVerbose
               THEN CallSetGameToPly(run0, ply + 2, faults)
               ELSE CallSetGameToPly(run0, ply + 1, faults)
    IN  IF adv.threw
        THEN LET back == CallSetGameToPly(adv, ply, faults)
             IN  Returned(IF back.threw THEN "throw" ELSE "null", NoVerbose, back)
        ELSE Returned("true", NoVerbose, adv)

\* the expected move: advance along the recorded line, makeMove is not called
acceptExpected(run0, line, ply, faults) ==
    LET oppExpected == expectedMove(line, ply + 1)
        adv == IF oppExpected # NoVerbose
               THEN CallSetGameToPly(run0, ply + 2, faults)
               ELSE CallSetGameToPly(run0, ply + 1, faults)
    IN  IF adv.threw
        THEN Returned("null", NoVerbose, CallSetGameToPly(adv, ply, faults))
        ELSE Returned("true", NoVerbose, adv)

\* the extension handing back true instead of the move makeMove applied
extendAtEndReturnsTrue(run0, line, ply, moveObj, faults) ==
    LET first == CallMakeMove(run0, moveObj, faults)
    IN  IF first.threw
        THEN Returned("throw", NoVerbose, first)
        ELSE IF first.ret = NoVerbose
        THEN Returned("null", NoVerbose, CallSetGameToPly(first, ply, faults))
        ELSE Returned("true", NoVerbose, first)

\* the extension looking the reply up one ply before the cursor
extendAtEndRepliesBehind(run0, line, ply, moveObj, faults) ==
    LET first == CallMakeMove(run0, moveObj, faults)
    IN  IF first.threw
        THEN Returned("throw", NoVerbose, first)
        ELSE IF first.ret = NoVerbose
        THEN Returned("null", NoVerbose, CallSetGameToPly(first, ply, faults))
        ELSE LET oppExpected == expectedMove(line, ply - 1)
             IN  IF oppExpected # NoVerbose
                 THEN Returned("move", first.ret,
                               CallMakeMove(first,
                                            MoveObj(oppExpected.from, oppExpected.to,
                                                    oppExpected.promotion),
                                            faults))
                 ELSE Returned("move", first.ret, first)

\* at the end of the recorded line: try to append the move
extendAtEnd(run0, line, ply, moveObj, faults) ==
    LET first == CallMakeMove(run0, moveObj, faults)
    IN  IF first.threw
        THEN Returned("throw", NoVerbose, first)
        ELSE IF first.ret = NoVerbose
        THEN Returned("null", NoVerbose, CallSetGameToPly(first, ply, faults))
        ELSE LET oppExpected == expectedMove(line, ply + 1)
             IN  IF oppExpected # NoVerbose
                 THEN Returned("move", first.ret,
                               CallMakeMove(first,
                                            MoveObj(oppExpected.from, oppExpected.to,
                                                    oppExpected.promotion),
                                            faults))
                 ELSE Returned("move", first.ret, first)

\* an unexpected move inside the recorded line: restore the display, reject
rejectUnexpected(run0, ply, faults) ==
    Returned("null", NoVerbose, CallSetGameToPly(run0, ply, faults))

\* handleTrainingMove without the test of whose turn it is
handleTrainingMoveAnyTurn(st, color, moveObj, faults) ==
    LET line     == st.fullLine
        ply      == st.viewPly
        expected == expectedMove(line, ply)
        run0     == [st |-> st, calls |-> <<>>]
    IN  IF expected # NoVerbose /\ sameMove(expected, moveObj)
        THEN acceptExpected(run0, line, ply, faults)
        ELSE IF ply = Len(line)
        THEN extendAtEnd(run0, line, ply, moveObj, faults)
        ELSE rejectUnexpected(run0, ply, faults)

\* handleTrainingMove without the test of the cursor being at the end
handleTrainingMoveAnywhere(st, color, moveObj, faults) ==
    LET line     == st.fullLine
        ply      == st.viewPly
        userTurn == isUsersTurn(color, ply)
        expected == expectedMove(line, ply)
        run0     == [st |-> st, calls |-> <<>>]
    IN  IF ~userTurn
        THEN rejectOffTurn(run0, ply, faults)
        ELSE IF expected # NoVerbose /\ sameMove(expected, moveObj)
        THEN acceptExpected(run0, line, ply, faults)
        ELSE extendAtEnd(run0, line, ply, moveObj, faults)

handleTrainingMove(st, color, moveObj, faults) ==
    LET line     == st.fullLine
        ply      == st.viewPly
        userTurn == isUsersTurn(color, ply)
        expected == expectedMove(line, ply)
        run0     == [st |-> st, calls |-> <<>>]
    IN  IF ~userTurn
        THEN rejectOffTurn(run0, ply, faults)
        ELSE IF expected # NoVerbose /\ sameMove(expected, moveObj)
        THEN acceptExpected(run0, line, ply, faults)
        ELSE IF ply = Len(line)
        THEN extendAtEnd(run0, line, ply, moveObj, faults)
        ELSE rejectUnexpected(run0, ply, faults)

\* the arguments of a call
TrainingInput(line, ply, color, moveObj, faults) ==
    [fullLine |-> line, viewPly |-> ply, studyColor |-> color,
     move |-> moveObj, faults |-> faults, called |-> TRUE]

TrainingIdle ==
    /\ studyColor = "white"
    /\ trIn = [TrainingInput(<<>>, 0, "white", NullMove, {}) EXCEPT !.called = FALSE]
    /\ trCalls = <<>>
    /\ trRes = [kind |-> "none", mv |-> NoVerbose]

\* the board's move handler in training mode
HandleTrainingMove(moveObj, faults) ==
    LET r == handleTrainingMove(Now, studyColor, moveObj, faults)
    IN  /\ Becomes(r.st)
        /\ trIn' = TrainingInput(fullLine, viewPly, studyColor, moveObj, faults)
        /\ trCalls' = r.calls
        /\ trRes' = [kind |-> r.kind, mv |-> r.mv]
        /\ UNCHANGED <<studyColor, tlRes>>

-----------------------------------------------------------------------------
(* Persistence: the app state, its JSON form and the storage key, the      *)
(* second half of src/src/tree.js.  JavaScript values carry their type, so *)
(* that String(x), truthiness, ?? and === act as the language defines      *)
(* them; an object is the function from its own keys to their values.      *)

Str(s)      == [t |-> "string", s |-> s]
Num(n)      == [t |-> "number", n |-> n]
Bool(b)     == [t |-> "boolean", b |-> b]
JsNull      == [t |-> "null"]
JsUndefined == [t |-> "undefined"]
Arr(items)  == [t |-> "array", items |-> items]
Obj(fields) == [t |-> "object", fields |-> fields]

\* v[k] for a non-nullish v: an absent key reads as undefined
Get(v, k) ==
    IF v.t = "object" /\ k \in DOMAIN v.fields THEN v.fields[k] ELSE JsUndefined

\* v[k] = x on an object
Set(v, k, x) ==
    Obj([j \in DOMAIN v.fields \cup {k} |-> IF j = k THEN x ELSE v.fields[j]])

Nullish(v) == v.t \in {"null", "undefined"}

\* ToBoolean
Truthy(v) ==
    CASE v.t = "string"  -> v.s # ""
      [] v.t = "number"  -> v.n # 0
      [] v.t = "boolean" -> v.b
      [] Nullish(v)      -> FALSE
      [] OTHER           -> TRUE

\* typeof v === "object"
IsObjectType(v) == v.t \in {"object", "array", "null"}

IsArray(v) == v.t = "array"

\* a ?? b
Coalesce(a, b) == IF Nullish(a) THEN b ELSE a

\* the decimal text of the numbers that occur
NumText(n) ==
    CASE n = 0 -> "0" [] n = 1 -> "1" [] n = 2 -> "2" [] n = 7 -> "7"
      [] n = 999 -> "999" [] OTHER -> "NaN"

\* String(v)
JsString(v) ==
    CASE v.t = "string"    -> v
      [] v.t = "number"    -> Str(NumText(v.n))
      [] v.t = "boolean"   -> Str(IF v.b THEN "true" ELSE "false")
      [] v.t = "null"      -> Str("null")
      [] v.t = "undefined" -> Str("undefined")
      [] v.t = "array"     -> IF v.items = <<>> THEN Str("") ELSE Str("[array]")
      [] OTHER             -> Str("[object Object]")

\* what a call hands back: a value, or the error it threw
Returns(v)  == [threw |-> FALSE, error |-> "", value |-> v]
Thrown(msg) == [threw |-> TRUE, error |-> msg, value |-> JsUndefined]

\* JSON.stringify: a member whose value is undefined is left out, an undefined
\* array element is written as null; the text is kept as the document it spells
RECURSIVE Encode(_)
Encode(v) ==
    CASE v.t = "object" ->
             Obj([k \in { j \in DOMAIN v.fields : v.fields[j].t # "undefined" }
                     |-> Encode(v.fields[k])])
      [] v.t = "array" ->
             Arr([i \in 1..Len(v.items) |->
                     IF v.items[i].t = "undefined" THEN JsNull ELSE Encode(v.items[i])])
      [] OTHER -> v

JSON_stringify(v) == [t |-> "text", doc |-> Encode(v)]

\* a text that is not JSON
Malformed == [t |-> "text", doc |-> [t |-> "malformed"]]

\* JSON.parse: the value the text spells, or a SyntaxError
JSON_parse(text) ==
    IF text.doc.t = "malformed" THEN Thrown("SyntaxError") ELSE Returns(text.doc)

SCHEMA_VERSION == 1

createRoot == Obj([move |-> JsNull, children |-> Arr(<<>>)])

createNode(move) == Obj([move |-> move, children |-> Arr(<<>>)])

\* a move object as the board hands it over: promotion is present, and
\* undefined unless a pawn promotes
JsMove(m) ==
    Obj([from |-> Str(m.from), to |-> Str(m.to),
         promotion |-> IF m.promotion = Undefined THEN JsUndefined
                       ELSE Str(m.promotion)])

\* buildTreeFromLine(line): one node per move, each the only child of the one
\* before
RECURSIVE ChainFrom(_, _)
ChainFrom(line, i) ==
    IF i > Len(line) THEN <<>>
    ELSE << Set(createNode(line[i]), "children", Arr(ChainFrom(line, i + 1))) >>

buildTreeFromLine(line) == Set(createRoot, "children", Arr(ChainFrom(line, 1)))

\* name.trim() for the names that occur
Trim(s) == IF s = " Italian " THEN "Italian" ELSE IF s = "  " THEN "" ELSE s

\* createOpening({ name, trainAs }) with the id makeId() drew
createOpening(id, name, trainAs) ==
    IF Trim(name) = "" THEN Thrown("createOpening: name required")
    ELSE IF trainAs \notin {"white", "black"}
    THEN Thrown("createOpening: invalid trainAs")
    ELSE Returns(Obj([id |-> Str(id), name |-> Str(Trim(name)),
                      trainAs |-> Str(trainAs), root |-> createRoot]))

createEmptyAppState ==
    Obj([schemaVersion |-> Num(SCHEMA_VERSION), openings |-> Arr(<<>>),
         activeOpeningId |-> JsNull])

serializeTree(root) == root

\* normalizeTree(node): a falsy children becomes [], then every child is
\* treated the same way.  Children that cannot be iterated, a null child and
\* a primitive child (no property can be set on it in strict code) end in a
\* TypeError; a child that is itself an array has no children to visit.
RECURSIVE normalizeTree(_)
normalizeTree(node) ==
    LET n1   == IF ~Truthy(Get(node, "children"))
                THEN Set(node, "children", Arr(<<>>)) ELSE node
        kids == Get(n1, "children")
    IN  IF ~IsArray(kids) THEN Thrown("TypeError")
        ELSE IF \E i \in 1..Len(kids.items) : kids.items[i].t \notin {"object", "array"}
        THEN Thrown("TypeError")
        ELSE LET outs == [i \in 1..Len(kids.items) |->
                             LET ch  == kids.items[i]
                                 ch1 == IF ~Truthy(Get(ch, "children"))
                                        THEN Set(ch, "children", Arr(<<>>)) ELSE ch
                             IN  IF ch.t = "array" THEN Returns(ch)
                                 ELSE normalizeTree(ch1)]
             IN  IF \E i \in 1..Len(outs) : outs[i].threw
                 THEN Thrown("TypeError")
                 ELSE Returns(Set(n1, "children",
                                  Arr([i \in 1..Len(outs) |-> outs[i].value])))

\* deserializeTree without the recursion into the children
deserializeTreeShallow(obj) ==
    IF ~Truthy(obj) \/ ~IsObjectType(obj)
    THEN Thrown("deserializeTree: root must be object")
    ELSE IF ~IsArray(Get(obj, "children"))
    THEN Thrown("deserializeTree: root.children must be array")
    ELSE Returns(Set(obj, "children", Arr(<<>>)))

deserializeTree(obj) ==
    IF ~Truthy(obj) \/ ~IsObjectType(obj)
    THEN Thrown("deserializeTree: root must be object")
    ELSE IF ~IsArray(Get(obj, "children"))
    THEN Thrown("deserializeTree: root.children must be array")
    ELSE normalizeTree(obj)

\* the callback of state.openings.map in serializeAppState
serializeOpening(o) ==
    Obj([id       |-> Get(o, "id"),
         name     |-> Get(o, "name"),
         trainAs  |-> Get(o, "trainAs"),
         lastPath |-> Coalesce(Get(o, "lastPath"), Arr(<<>>)),
         root     |-> serializeTree(Get(o, "root"))])

serializeAppState(state) ==
    LET openings == Get(state, "openings").items
        payload  ==
            Obj([schemaVersion   |-> Num(SCHEMA_VERSION),
                 openings        |-> Arr([i \in 1..Len(openings) |->
                                             serializeOpening(openings[i])]),
                 activeOpeningId |-> Coalesce(Get(state, "activeOpeningId"), JsNull)])
    IN  JSON_stringify(payload)

\* the callback of obj.openings.map in deserializeAppState
deserializeOpening(o) ==
    IF Nullish(o) THEN Thrown("TypeError")
    ELSE IF ~Truthy(Get(o, "id")) \/ ~Truthy(Get(o, "name")) \/ ~Truthy(Get(o, "trainAs"))
    THEN Thrown("deserializeAppState: opening missing fields")
    ELSE LET root == deserializeTree(Get(o, "root"))
         IN  IF root.threw THEN root
             ELSE Returns(Obj([id       |-> JsString(Get(o, "id")),
                               name     |-> JsString(Get(o, "name")),
                               trainAs  |-> IF Get(o, "trainAs") = Str("white")
                                            THEN Str("white") ELSE Str("black"),
                               lastPath |-> IF IsArray(Get(o, "lastPath"))
                                            THEN Get(o, "lastPath") ELSE Arr(<<>>),
                               root     |-> root.value]))

\* the state deserializeAppState builds from the openings it read
LoadedState(openings, activeOpeningId) ==
    Obj([schemaVersion   |-> Num(SCHEMA_VERSION),
         openings        |-> Arr(openings),
         activeOpeningId |-> activeOpeningId])

\* deserializeAppState testing the openings before the schemaVersion
deserializeAppStateOpeningsFirst(json) ==
    LET parsed == JSON_parse(json)
        obj    == parsed.value
    IN  IF parsed.threw THEN parsed
        ELSE IF ~Truthy(obj) \/ ~IsObjectType(obj)
        THEN Thrown("deserializeAppState: invalid json")
        ELSE IF ~IsArray(Get(obj, "openings"))
        THEN Thrown("deserializeAppState: openings must be array")
        ELSE IF Get(obj, "schemaVersion") # Num(SCHEMA_VERSION)
        THEN Thrown("deserializeAppState: unsupported schemaVersion")
        ELSE LET items == Get(obj, "openings").items
                 outs  == [i \in 1..Len(items) |-> deserializeOpening(items[i])]
                 bad   == { i \in 1..Len(items) : outs[i].threw }
                 openings == [i \in 1..Len(items) |-> outs[i].value]
                 activeOpeningId == Coalesce(Get(obj, "activeOpeningId"), JsNull)
             IN  IF bad # {} THEN outs[Least(bad)]
                 ELSE IF /\ Truthy(activeOpeningId)
                         /\ ~\E i \in 1..Len(openings) :
                                Get(openings[i], "id") = activeOpeningId
                 THEN Returns(LoadedState(openings, JsNull))
                 ELSE Returns(LoadedState(openings, activeOpeningId))

deserializeAppState(json) ==
    LET parsed == JSON_parse(json)
        obj    == parsed.value
    IN  IF parsed.threw THEN parsed
        ELSE IF ~Truthy(obj) \/ ~IsObjectType(obj)
        THEN Thrown("deserializeAppState: invalid json")
        ELSE IF Get(obj, "schemaVersion") # Num(SCHEMA_VERSION)
        THEN Thrown("deserializeAppState: unsupported schemaVersion")
        ELSE IF ~IsArray(Get(obj, "openings"))
        THEN Thrown("deserializeAppState: openings must be array")
        ELSE LET items == Get(obj, "openings").items
                 outs  == [i \in 1..Len(items) |-> deserializeOpening(items[i])]
                 bad   == { i \in 1..Len(items) : outs[i].threw }
                 openings == [i \in 1..Len(items) |-> outs[i].value]
                 activeOpeningId == Coalesce(Get(obj, "activeOpeningId"), JsNull)
             IN  IF bad # {} THEN outs[Least(bad)]
                 ELSE IF /\ Truthy(activeOpeningId)
                         /\ ~\E i \in 1..Len(openings) :
                                Get(openings[i], "id") = activeOpeningId
                 THEN Returns(LoadedState(openings, JsNull))
                 ELSE Returns(LoadedState(openings, activeOpeningId))

\* storage.getItem(key) of a key never written
NoItem == JsNull

\* what saveToStorage(state, storage) leaves under the key
saveToStorage(state) == serializeAppState(state)

loadFromStorage(item) ==
    IF ~Truthy(item) THEN Returns(createEmptyAppState)
    ELSE deserializeAppState(item)

\* the longest line an opening's tree is built from
MaxStoredLine == 2

\* the name given to the opening with id "a" or "b" (makeId() drew the id),
\* and the moves of the stored lines
OpeningName(id) == IF id = "a" THEN "Caro-Kann" ELSE " Italian "
StoredMove(i) ==
    IF i % 3 = 1 THEN MoveObj("e2", "e4", Undefined)
    ELSE IF i % 3 = 2 THEN MoveObj("a7", "a8", "q")
    ELSE MoveObj("a7", "a8", Undefined)

\* the trees an opening holds: a line of up to MaxStoredLine moves, or a root
\* with two variations of which the first goes one move on
StoredTrees ==
    { buildTreeFromLine([i \in 1..n |-> JsMove(StoredMove(i))]) : n \in 0..MaxStoredLine }
        \cup
    { Set(createRoot, "children",
          Arr(<< Set(createNode(JsMove(StoredMove(1))), "children",
                     Arr(<<createNode(JsMove(StoredMove(2)))>>)),
                 createNode(JsMove(StoredMove(3))) >>)) }

\* an opening as the program builds it: createOpening, then a tree
BuiltOpenings(id) ==
    { Set(createOpening(id, OpeningName(id), trainAs).value, "root", root) :
          trainAs \in Colors, root \in StoredTrees }

\* an opening holding the longest line, with the last path it was browsed on
BrowsedOpenings(id) ==
    { Set(Set(createOpening(id, OpeningName(id), trainAs).value, "root",
              buildTreeFromLine([i \in 1..MaxStoredLine |-> JsMove(StoredMove(i))])),
          "lastPath", Arr(<<Num(0)>>)) : trainAs \in Colors }

\* openings put together by hand, with a field createOpening would refuse
HandMadeOpenings ==
    { Obj([id |-> Str(""), name |-> Str("Caro-Kann"), trainAs |-> Str("white"),
           root |-> createRoot]),
      Obj([id |-> Str("a"), name |-> Str(""), trainAs |-> Str("white"),
           root |-> createRoot]),
      Obj([id |-> Str("a"), name |-> Str("Caro-Kann"), trainAs |-> Str("green"),
           root |-> createRoot]) }

\* the lists of openings: none, one, or two with different ids in either order
OpeningLists ==
    {<<>>}
        \cup { <<o>> : o \in BuiltOpenings("a") \cup BuiltOpenings("b")
                              \cup BrowsedOpenings("a") \cup HandMadeOpenings }
        \cup { <<o1, o2>> : o1 \in BuiltOpenings("a"), o2 \in BrowsedOpenings("b") }
        \cup { <<o2, o1>> : o1 \in BuiltOpenings("a"), o2 \in BrowsedOpenings("b") }

\* what a caller assigns to state.activeOpeningId
ActiveIds ==
    {JsNull, JsUndefined, Str("a"), Str("b"), Str("does-not-exist"), Str("")}

AppStates ==
    { Obj([schemaVersion |-> Num(SCHEMA_VERSION), openings |-> Arr(list),
           activeOpeningId |-> active]) :
          list \in OpeningLists, active \in ActiveIds }

\* a payload written by hand or by another version of the program
Payload(version, openings, active) ==
    JSON_stringify(Obj([schemaVersion |-> version, openings |-> openings,
                        activeOpeningId |-> active]))

\* an opening of such a payload
StoredOpening(id, root) ==
    Obj([id |-> id, name |-> Str("Test"), trainAs |-> Str("white"), root |-> root])

\* a node without a children member, alone and above another such node
BareNode(i) == Obj([move |-> JsMove(StoredMove(i))])
BareChain   == Obj([move |-> JsMove(StoredMove(1)), children |-> Arr(<<BareNode(2)>>)])

ForeignTexts ==
    { Malformed, JSON_stringify(JsNull), JSON_stringify(Num(7)),
      JSON_stringify(Arr(<<>>)) }
        \cup
    { Payload(v, Arr(<<StoredOpening(Str("a"), createRoot)>>), a) :
          v \in {Num(999), Num(2), Str("1"), JsUndefined}, a \in {JsNull, Str("a")} }
        \cup
    { Payload(Num(SCHEMA_VERSION), o, JsNull) :
          o \in { JsNull, Str("a"), Arr(<<JsNull>>), Arr(<<Str("a")>>),
                  Arr(<<StoredOpening(Str("a"), JsUndefined)>>),
                  Arr(<<StoredOpening(Str("a"), Obj([move |-> JsNull]))>>),
                  Arr(<<StoredOpening(Str("a"), Obj([move |-> JsNull, children |-> JsNull]))>>),
                  Arr(<<StoredOpening(Str("a"), Set(createRoot, "children", Arr(<<BareNode(1)>>)))>>),
                  Arr(<<StoredOpening(Str("a"), Set(createRoot, "children", Arr(<<BareChain>>)))>>),
                  Arr(<<StoredOpening(Str("a"), Set(createRoot, "children", Arr(<<JsNull>>)))>>) } }
        \cup
    { Payload(Num(SCHEMA_VERSION), Arr(<<StoredOpening(id, createRoot)>>), a) :
          id \in {Str("a"), Num(7)},
          a  \in {JsUndefined, Str("a"), Str("zz"), Str(""), Str("7"), Num(7), Num(0),
                  Bool(FALSE), Bool(TRUE)} }
        \cup
    { Payload(v, o, Str("zz")) :
          v \in {Num(999), JsUndefined}, o \in {JsNull, Arr(<<JsNull>>)} }

\* the outcome of the last load, with the text it read
Loaded(op, json, out) ==
    [op |-> op, json |-> json, threw |-> out.threw, error |-> out.error,
     state |-> out.value]

StorageIdle ==
    /\ appState = createEmptyAppState
    /\ storage = NoItem
    /\ loaded = Loaded("none", NoItem, Returns(JsUndefined))

\* saveToStorage(state, storage)
SaveToStorage ==
    /\ storage' = saveToStorage(appState)
    /\ UNCHANGED <<appState, loaded>>

\* loadFromStorage(storage)
LoadFromStorage ==
    /\ loaded' = Loaded("loadFromStorage", storage, loadFromStorage(storage))
    /\ UNCHANGED <<appState, storage>>

\* deserializeAppState(json) on a text the caller hands in
DeserializeAppState(json) ==
    /\ loaded' = Loaded("deserializeAppState", json, deserializeAppState(json))
    /\ UNCHANGED <<appState, storage>>

-----------------------------------------------------------------------------
(* The app: the second script of src/app.js (lines 770-1288), which keeps   *)
(* the current line in a tree session.  Its chess.js instance is kept as a *)
(* small board of its own, taken up where a white pawn stands one step     *)
(* from promotion and a white knight and a black pawn have a move each.    *)
(* What is drawn on the board is not kept.                                 *)

AppEmpty == [color |-> "-", type |-> "-"]

\* the squares that are named, each with its file and its rank
SquareTable ==
    { <<"a5", "a", 5>>, <<"a6", "a", 6>>, <<"a7", "a", 7>>, <<"a8", "a", 8>>,
      <<"g1", "g", 1>>, <<"f3", "f", 3>>, <<"e7", "e", 7>>, <<"e5", "e", 5>> }

\* square[0], Number(square[1]) and `${file}${rank}`
FileOf(sq) == (CHOOSE t \in SquareTable : t[1] = sq)[2]
RankOf(sq) == (CHOOSE t \in SquareTable : t[1] = sq)[3]
SquareAt(file, rank) ==
    (CHOOSE t \in SquareTable : t[2] = file /\ t[3] = rank)[1]

\* how the followed pieces move: <<from, to, kind>>
AppGeometry ==
    { <<"a7", "a8", "push">>, <<"g1", "f3", "piece">>,
      <<"e7", "e5", "push">> }

AppSquares == { g[1] : g \in AppGeometry } \cup { g[2] : g \in AppGeometry }

\* the position the board is taken up in
AppStart ==
    [sq \in AppSquares |->
        CASE sq = "a7" -> [color |-> "w", type |-> "p"]
          [] sq = "g1" -> [color |-> "w", type |-> "n"]
          [] sq = "e7" -> [color |-> "b", type |-> "p"]
          [] OTHER     -> AppEmpty]

\* game.get(square) after the moves of hist; AppEmpty for no piece
RECURSIVE AppBoard(_)
AppBoard(hist) ==
    IF hist = <<>> THEN AppStart
    ELSE LET before == AppBoard(Pop(hist))
             m      == Last(hist)
             moved  == [color |-> before[m.from].color,
                        type  |-> IF m.promotion = Undefined
                                  THEN before[m.from].type ELSE m.promotion]
         IN  [before EXCEPT ![m.to] = moved, ![m.from] = AppEmpty]

\* the pairs a drag on the board can hand to the move handler
AppDrags == { <<g[1], g[2]>> : g \in AppGeometry }

isPromotionMove(hist, from, to) ==
    LET piece == AppBoard(hist)[from]
    IN  IF piece = AppEmpty \/ piece.type # "p" THEN FALSE
        ELSE \/ piece.color = "w" /\ RankOf(to) = 8
             \/ piece.color = "b" /\ RankOf(to) = 1

\* game.move(moveObj) would apply: a pawn reaching the last rank needs its
\* promotion piece
AppLegal(hist, m) ==
    \E g \in AppGeometry :
        LET pos == AppBoard(hist)
            me  == Turn(hist)
        IN  /\ g[1] = m.from /\ g[2] = m.to
            /\ pos[g[1]].color = me
            /\ g[3] = "push" => pos[g[2]] = AppEmpty
            /\ g[3] = "capture" => pos[g[2]].color = Other(me)
            /\ g[3] = "piece" => pos[g[2]].color # me
            /\ isPromotionMove(hist, m.from, m.to) => m.promotion \in {"q", "n", "r", "b"}

\* tryGameMove(moveObj): the applied move, or null
tryGameMove(hist, m) ==
    IF AppLegal(hist, m)
    THEN Verbose(m.from, m.to,
                 IF isPromotionMove(hist, m.from, m.to) THEN m.promotion ELSE Undefined,
                 Null)
    ELSE NoVerbose

\* getSessionMoves(session): the moves of the path entries that have one
getSessionMoves(moves, p) ==
    SelectSeq([i \in 1..Len(p) |-> moves[p[i]]], LAMBDA mv : mv # NullMove)

\* the loop of replaySessionToGame over what is left of the moves
RECURSIVE AppReplay(_, _)
AppReplay(ms, hist) ==
    IF ms = <<>> THEN hist
    ELSE LET mv == tryGameMove(hist, ms[1])
         IN  IF mv = NoVerbose THEN hist
             ELSE AppReplay(Tail(ms), Append(hist, mv))

\* replaySessionToGame() once the session operation of the handler has acted
replaySessionToGame ==
    game' = AppReplay(getSessionMoves(nodeMove', path'[1]), <<>>)

\* promoSquares(to, chessColor)
promoSquares(to, chessColor) ==
    LET ranks == IF chessColor = "w" THEN <<8, 7, 6, 5>> ELSE <<1, 2, 3, 4>>
    IN  [i \in 1..4 |-> SquareAt(FileOf(to), ranks[i])]

\* the squares a select event can name: those of the queen and of the knight
\* of a pending choice, and one that offers no piece
AppKeys ==
    {"a8", "a7", "g1"}

\* the handler returns at once
AppIgnores == UNCHANGED <<treeVars, game, promoPick, mode, redoStack, undoPath>>

isPromotionOverlayActive == promoPick = Bool(TRUE)

startPromotionFlow(from, to) ==
    /\ promoPick' = Obj([from |-> from, to |-> to,
                         squares |-> promoSquares(to, AppBoard(game)[from].color)])
    /\ UNCHANGED <<treeVars, game, mode, redoStack, undoPath>>

\* addMoveToTree(legalMove) / the addVariationAndGo call of onBoardSelect
addMoveToTree(mv) ==
    addVariationAndGo(1, MoveObj(mv.from, mv.to, mv.promotion))

applyEditMove(mv) ==
    LET legalMove == tryGameMove(game, mv)
    IN  IF legalMove = NoVerbose THEN AppIgnores
        ELSE /\ game' = Append(game, legalMove)
             /\ addMoveToTree(legalMove)
             /\ redoStack' = <<>>
             /\ undoPath' = <<>>
             /\ UNCHANGED <<promoPick, mode>>

applyTrainingMove(moveKey) ==
    /\ IF isExpectedMove(1, moveKey)
       THEN goForwardIfExists(1, moveKey) ELSE UNCHANGED treeVars
    /\ replaySessionToGame
    /\ UNCHANGED <<promoPick, mode, redoStack, undoPath>>

\* the event being handled and the promotion pending when it comes; the
\* handlers of the app touch nothing of the other parts
AppResult(op, pending) == [op |-> op, pending |-> pending]

Handling(op) ==
    /\ appRes' = AppResult(op, promoPick)
    /\ UNCHANGED <<fullLine, viewPly, tlRes, trVars, stVars, pgnVars, call>>

onUserMove(from, to) ==
    /\ Handling("onUserMove")
    /\ IF isPromotionOverlayActive THEN AppIgnores
       ELSE IF isPromotionMove(game, from, to) THEN startPromotionFlow(from, to)
       ELSE IF mode = "train" THEN applyTrainingMove(MoveObj(from, to, Undefined))
       ELSE applyEditMove(MoveObj(from, to, Undefined))

onBoardSelect(key) ==
    /\ Handling("onBoardSelect")
    /\ IF ~Truthy(promoPick) THEN AppIgnores
       ELSE LET idx == IndexOf(Get(promoPick, "squares"), key)
            IN  IF idx = 0 THEN AppIgnores
                ELSE LET promotion == <<"q", "n", "r", "b">>[idx]
                         mv == tryGameMove(game, MoveObj(Get(promoPick, "from"),
                                                         Get(promoPick, "to"), promotion))
                     IN  /\ promoPick' = JsNull
                         /\ IF mv = NoVerbose THEN UNCHANGED <<treeVars, game, redoStack, undoPath>>
                            ELSE /\ game' = Append(game, mv)
                                 /\ addMoveToTree(mv)
                                 /\ redoStack' = <<>>
                                 /\ undoPath' = <<>>
                         /\ UNCHANGED mode

undo ==
    /\ Handling("undo")
    /\ IF Truthy(promoPick) \/ currentNode(1) = Root THEN AppIgnores
       ELSE /\ Len(redoStack) < MaxRedo
            /\ goBack(1)
            /\ redoStack' = IF nodeMove[currentNode(1)] # NullMove
                            THEN Append(redoStack, nodeMove[currentNode(1)])
                            ELSE redoStack
            /\ undoPath' = IF nodeMove[currentNode(1)] # NullMove
                           THEN Append(undoPath, path[1])
                           ELSE undoPath
            /\ replaySessionToGame
            /\ UNCHANGED <<promoPick, mode>>

redo ==
    /\ Handling("redo")
    /\ IF Truthy(promoPick) \/ redoStack = <<>> THEN AppIgnores
       ELSE /\ redoStack' = Pop(redoStack)
            /\ undoPath' = Pop(undoPath)
            /\ goForwardIfExists(1, Last(redoStack))
            /\ IF treeRes'.ok THEN replaySessionToGame ELSE game' = game
            /\ UNCHANGED <<promoPick, mode>>

\* setMode(nextMode), with startTraining() on entering train mode
setMode(nextMode) ==
    /\ Handling("setMode")
    /\ IF mode = nextMode THEN AppIgnores
       ELSE /\ mode' = nextMode
            /\ IF nextMode = "train"
               THEN resetSessionToRoot(1) /\ replaySessionToGame
               ELSE UNCHANGED <<treeVars, game>>
            /\ UNCHANGED <<promoPick, redoStack, undoPath>>

AppIdle ==
    /\ promoPick = JsNull
    /\ mode = "edit"
    /\ redoStack = <<>>
    /\ undoPath = <<>>
    /\ appRes = AppResult("init", JsNull)

-----------------------------------------------------------------------------

(* PGN import of the timeline app: applyPgnFromInput of src/app.js (kept   *)
(* as src/unnamed/part_007).  A PGN text is kept as what is read off it:   *)
(* whether it has a FEN header, its moves in SAN, and whether white space  *)
(* surrounds it.                                                           *)

PgnText(fen, sans, space) == Str([fen |-> fen, sans |-> sans, space |-> space])

\* the empty string
EmptyText == PgnText(FALSE, <<>>, FALSE)

\* String.prototype.trim
PgnTrim(text) == Str([text.s EXCEPT !.space = FALSE])

pgnHasFenHeader(pgnText) == Coalesce(pgnText, EmptyText).s.fen

\* game.pgn(): the moves of the game in SAN, no header
GamePgn(hist) == PgnText(FALSE, [i \in 1..Len(hist) |-> hist[i].san], FALSE)

\* game.loadPgn(text) on a reset game: every SAN must name a legal move of the
\* position reached; the first that does not throws, the moves before it made
RECURSIVE LoadSans(_, _)
LoadSans(sans, hist) ==
    IF sans = <<>> THEN [threw |-> FALSE, game |-> hist]
    ELSE LET hits == { g \in LegalGeometry(hist) : g[4] = sans[1] }
         IN  IF hits = {} THEN [threw |-> TRUE, game |-> hist]
             ELSE LET g == CHOOSE x \in hits : TRUE
                  IN  LoadSans(Tail(sans),
                               Append(hist, Verbose(g[1], g[2], Undefined, g[4])))

GameLoadPgn(text) == LoadSans(text.s.sans, <<>>)

\* the state of the timeline app
PgnState(line, ply, hist, pgn) ==
    [fullLine |-> line, viewPly |-> ply, game |-> hist, fullPgn |-> pgn]

\* setGameToPly of the app: a replay that throws ends on the start position
setGameToPlyApp(st, ply) ==
    LET r == Replay(st.fullLine, clampPly(ply, Len(st.fullLine)), 0)
    IN  [st EXCEPT !.game = IF r.threw THEN <<>> ELSE r.game]

\* applyPgnFromInput committing what the restored game holds when the text
\* could not be loaded
applyPgnCommitsRestored(st, pgnText) ==
    LET text      == PgnTrim(Coalesce(pgnText, EmptyText))
        beforePgn == GamePgn(st.game)
        attempt   == GameLoadPgn(text)
    IN  IF text = EmptyText THEN [st |-> st, ret |-> FALSE]
        ELSE IF pgnHasFenHeader(text) THEN [st |-> st, ret |-> FALSE]
        ELSE IF attempt.threw
        THEN LET restored == GameLoadPgn(beforePgn).game
             IN  [st  |-> PgnState(restored, Len(restored), restored, GamePgn(restored)),
                  ret |-> FALSE]
        ELSE LET line == attempt.game
                 committed == PgnState(line, applyCommit(line).viewPly, line, GamePgn(line))
                 there == [committed EXCEPT !.viewPly = clampPly(Len(line), Len(line))]
             IN  [st |-> setGameToPlyApp(there, there.viewPly), ret |-> TRUE]

applyPgnFromInput(st, pgnText) ==
    LET text      == PgnTrim(Coalesce(pgnText, EmptyText))
        beforePgn == GamePgn(st.game)
        attempt   == GameLoadPgn(text)
    IN  IF text = EmptyText THEN [st |-> st, ret |-> FALSE]
        ELSE IF pgnHasFenHeader(text) THEN [st |-> st, ret |-> FALSE]
        ELSE IF attempt.threw
        THEN \* game.reset(); game.loadPgn(beforePgn); setGameToPly(viewPly)
             LET restored == GameLoadPgn(beforePgn).game
             IN  [st  |-> setGameToPlyApp([st EXCEPT !.game = restored], st.viewPly),
                  ret |-> FALSE]
        ELSE \* commitFromGame(); goToPly(fullLine.length)
             LET line == attempt.game
                 committed == PgnState(line, applyCommit(line).viewPly, line, GamePgn(line))
                 there == [committed EXCEPT !.viewPly = clampPly(Len(line), Len(line))]
             IN  [st |-> setGameToPlyApp(there, there.viewPly), ret |-> TRUE]

\* what is pasted into the PGN box: nothing, white space, a line with and
\* without surrounding white space, a From-Position PGN, and texts the
\* validator cannot load, from the first move or after some
PgnInputs ==
    { JsNull, JsUndefined, EmptyText, PgnText(FALSE, <<>>, TRUE),
      PgnText(TRUE, <<"e4">>, FALSE), PgnText(TRUE, <<>>, TRUE),
      PgnText(FALSE, <<"Zz9">>, FALSE), PgnText(FALSE, <<"e4", "e4">>, TRUE),
      PgnText(FALSE, <<"exd5">>, FALSE) }
        \cup
    { GamePgn(l) : l \in LegalLines(MaxPgnLine) }
        \cup
    { PgnText(FALSE, GamePgn(l).s.sans, TRUE) : l \in LegalLines(1) }

PgnResult(op, text, ret) == [op |-> op, text |-> text, ret |-> ret]

PgnIdle ==
    /\ fullPgn = EmptyText
    /\ pgnRes = PgnResult("none", JsUndefined, FALSE)
    /\ timers = <<>> /\ autoplayTimer = 0 /\ pendingOpponentStartAt = 0
    /\ studies = <<>> /\ activeStudyId = JsNull
    /\ localStorage = [studies |-> JsNull, active |-> JsNull, pgn |-> JsNull]

\* a call of a pure function: the arguments drawn, of one kind, then the
\* function applied to them and what it gave
FnCall(fn, kind, args, out) == [fn |-> fn, kind |-> kind, args |-> args, out |-> out]

CallIdle == call = FnCall("none", "none", <<>>, Null)

\* the arguments of the functions of a line and a ply
LineArgs == { <<l, p>> : l \in LegalLines(MaxPgnLine), p \in Plies }

Others == UNCHANGED <<treeVars, tlVars, trVars, stVars, appVars, pgnVars>>

\* a string of fields: the parts white space separates, and whether white
\* space surrounds them
FenText(fields, pad) == Str([fields |-> fields, pad |-> pad])

\* fen.trim().split(/\s+/): the empty string splits into one empty part
SplitFields(fen) == IF fen.s.fields = <<>> THEN <<"">> ELSE fen.s.fields

\* positionKeyFromFen keeping the half-move counter in the key
positionKeyWithHalfmove(fen) ==
    IF fen.t # "string" THEN Thrown("fen must be a string")
    ELSE LET parts == SplitFields(fen)
         IN  IF Len(parts) < 4 THEN Thrown("invalid FEN")
             ELSE Returns(FenText(SubSeq(parts, 1, Min(5, Len(parts))), FALSE))

positionKeyFromFen(fen) ==
    IF fen.t # "string" THEN Thrown("fen must be a string")
    ELSE LET parts == SplitFields(fen)
         IN  IF Len(parts) < 4 THEN Thrown("invalid FEN")
             ELSE LET normCastling == IF parts[3] # "" THEN parts[3] ELSE "-"
                      normEp       == IF parts[4] # "" THEN parts[4] ELSE "-"
                  IN  Returns(FenText(<<parts[1], parts[2], normCastling, normEp>>,
                                      FALSE))

\* FEN strings of two placements, either side to move, two castling rights,
\* two en-passant squares and two half-move counters, with and without
\* white space around them and with and without the counters; and what is
\* no FEN: too few fields, the empty string, a number, null
FenInputs ==
    { FenText(<<pl, t, c, ep, h, "1">>, pad) :
          pl \in {"8/8/8/8/8/8/8/K6k", "8/8/8/8/8/8/P7/K6k"}, t \in {"w", "b"},
          c \in {"KQkq", "-"}, ep \in {"-", "e3"}, h \in {"0", "5"},
          pad \in BOOLEAN }
        \cup
    { FenText(<<"8/8/8/8/8/8/8/K6k", "w", c, "-">>, FALSE) : c \in {"KQkq", "-"} }
        \cup
    { FenText(<<"8/8/8/8/8/8/8/K6k", "w", "-">>, FALSE), FenText(<<>>, TRUE),
      FenText(<<>>, FALSE), Num(7), JsNull }

\* two strings to compare the keys of: any string beside one of a few
FenArgs ==
    { <<a, b>> : a \in FenInputs,
                 b \in { FenText(<<"8/8/8/8/8/8/8/K6k", "w", "-", "-", h, "1">>, FALSE) :
                             h \in {"0", "5"} }
                       \cup { FenText(<<"8/8/8/8/8/8/8/K6k", "w", "-", "-">>, FALSE),
                              FenText(<<"8/8/8/8/8/8/8/K6k", "w", "-">>, FALSE) } }

PositionKeyFromFen ==
    /\ call.kind = "fens"
    /\ call' = FnCall("positionKeyFromFen", call.kind, call.args,
                      <<positionKeyFromFen(call.args[1]),
                        positionKeyFromFen(call.args[2])>>)
    /\ Others

\* a study of the overlay: id, name, colour and PGN
Study(id, name, color, pgn) ==
    [id |-> id, name |-> name, color |-> color, pgn |-> pgn]

MigrationResult(list, active) == [studies |-> list, activeStudyId |-> active]

\* migrateLegacyPgn synthesizing a study whenever there is a legacy PGN
migrateLegacyPgnUnguarded(legacyPgn, existingStudies, newId) ==
    IF ~Truthy(legacyPgn)
    THEN IF Len(existingStudies) > 0
         THEN MigrationResult(existingStudies, Str(existingStudies[1].id))
         ELSE MigrationResult(<<>>, JsNull)
    ELSE MigrationResult(
             Append(existingStudies,
                    Study(newId, "Migrated opening", "white", legacyPgn)),
             Str(newId))

\* migrateLegacyPgn({legacyPgn, existingStudies}); newId is the id the new
\* study is created with
migrateLegacyPgn(legacyPgn, existingStudies, newId) ==
    IF Len(existingStudies) > 0
    THEN MigrationResult(existingStudies, Str(existingStudies[1].id))
    ELSE IF ~Truthy(legacyPgn)
    THEN MigrationResult(<<>>, JsNull)
    ELSE MigrationResult(<<Study(newId, "Migrated opening", "white", legacyPgn)>>,
                         Str(newId))

StudyIds == 1..(MaxStudies + 1)

\* what localStorage holds under the old single-PGN key: nothing or a text
LegacyPgns == {JsNull, Str(""), Str("1. d4 d5 *"), Str("1. e4 *")}

\* the lists of stored studies: up to MaxStudies studies of distinct ids
StoredStudies ==
    { Study(id, name, "white", Str("1. c4 *")) :
          id \in 1..MaxStudies, name \in {"Migrated opening", "Jobava"} }

StudyLists ==
    { l \in UNION { [1..n -> StoredStudies] : n \in 0..MaxStudies } :
          \A i, j \in DOMAIN l : l[i].id = l[j].id => i = j }

MigrateArgs == { <<p, l>> : p \in LegacyPgns, l \in StudyLists }

\* the first call migrates the stored studies, every later call the result
\* of the call before it, with the same legacy PGN
MigrateLegacyPgn ==
    /\ call.kind = "migrate"
    /\ LET existing == IF call.fn = "none" THEN call.args[2]
                       ELSE call.out.studies
       IN  /\ Len(existing) <= MaxStudies
           /\ \E newId \in StudyIds \ { existing[i].id : i \in DOMAIN existing } :
                  call' = FnCall("migrateLegacyPgn", call.kind,
                                 <<call.args[1], existing>>,
                                 migrateLegacyPgn(call.args[1], existing, newId))
    /\ Others

ComputeLastMove ==
    /\ call.kind = "line"
    /\ call' = FnCall("computeLastMove", call.kind, call.args,
                    computeLastMove(call.args[1], call.args[2]))
    /\ Others

BranchLineIfNeeded ==
    /\ call.kind = "line"
    /\ call' = FnCall("branchLineIfNeeded", call.kind, call.args,
                    branchLineIfNeeded(call.args[1], call.args[2]))
    /\ Others

ApplyPgnFromInput(pgnText) ==
    LET r == applyPgnFromInput(PgnState(fullLine, viewPly, game, fullPgn), pgnText)
    IN  /\ fullLine' = r.st.fullLine
        /\ viewPly' = r.st.viewPly
        /\ game' = r.st.game
        /\ fullPgn' = r.st.fullPgn
        /\ pgnRes' = PgnResult("applyPgnFromInput", pgnText, r.ret)
        /\ UNCHANGED <<treeVars, tlRes, trVars, stVars, appVars, tmVars, sdVars, call>>

\* goToPly of the app: the cursor moves, the line and its PGN stay
GoToPlyApp(ply) ==
    LET p  == clampPly(ply, Len(fullLine))
        st == setGameToPlyApp(PgnState(fullLine, p, game, fullPgn), p)
    IN  /\ viewPly' = p
        /\ game' = st.game
        /\ pgnRes' = PgnResult("goToPly", JsUndefined, FALSE)
        /\ UNCHANGED <<fullLine, fullPgn, treeVars, tlRes, trVars, stVars, appVars,
                       tmVars, sdVars, call>>

-----------------------------------------------------------------------------

(* The studies of the timeline app (src/unnamed/part_007): the list of     *)
(* studies, the id of the active one, and what localStorage keeps under    *)
(* the keys of the studies, of the active id and of the old single PGN.    *)
(* A PGN is kept as its text; the texts that occur are those of PgnBook.   *)
(* Time stamps, the board orientation and the overlay are not kept.        *)

\* the PGN texts that occur: <<text, the SAN moves it spells, whether it is
\* what game.pgn() writes for them>>
PgnBook ==
    { <<"", <<>>, TRUE>>,
      <<"1. e4", <<"e4">>, TRUE>>, <<"1. e4 *", <<"e4">>, FALSE>>,
      <<"1. d4 d5", <<"d4", "d5">>, TRUE>>, <<"1. d4 d5 *", <<"d4", "d5">>, FALSE>>,
      <<"1. c4 *", <<"c4">>, FALSE>> }

\* game.loadPgn(pgn) on a reset game
StudyLoadPgn(pgn) == LoadSans((CHOOSE b \in PgnBook : b[1] = pgn.s)[2], <<>>)

\* game.pgn()
StudyPgn(hist) ==
    Str((CHOOSE b \in PgnBook : b[3] /\ b[2] = GamePgn(hist).s.sans)[1])

\* the null of pickStudy
NoStudy == [id |-> 0]

\* pickStudy(list, id): the study of that id, or null
pickStudy(list, id) ==
    LET hits == { i \in DOMAIN list : Str(list[i].id) = id }
    IN  IF hits = {} THEN NoStudy ELSE list[Least(hits)]

\* upsertStudy(list, item): the update merged into the study of its id, or
\* appended
upsertStudy(list, item) ==
    IF \E i \in DOMAIN list : list[i].id = item.id
    THEN [i \in DOMAIN list |->
             IF list[i].id # item.id THEN list[i]
             ELSE [k \in DOMAIN list[i] \cup DOMAIN item |->
                      IF k \in DOMAIN item THEN item[k] ELSE list[i][k]]]
    ELSE Append(list, item)

\* createStudy({name, color}); newId is the id it is created with
createStudy(name, color, newId) ==
    Study(newId, IF name = "" THEN "New opening" ELSE name,
          IF color = "black" THEN "black" ELSE "white", Str(""))

\* the state the handlers of the studies work on
StudiesState(list, active, store, line, ply, hist, pgn) ==
    [studies |-> list, activeStudyId |-> active, localStorage |-> store,
     fullLine |-> line, viewPly |-> ply, game |-> hist, fullPgn |-> pgn]

\* JSON.stringify of the list of studies: a text that parses back to the list
StudiesJson(list) == Str([json |-> list])

\* loadStudiesFromStorage(): an absent item reads as the empty list
loadStudiesFromStorage(store) ==
    IF Nullish(store.studies) THEN <<>> ELSE store.studies.s.json

\* saveStudiesToStorage(): the list is written, the active id only when it is
\* not null (an id is never the empty string)
saveStudiesToStorage(st) ==
    [st EXCEPT !.localStorage =
        [studies |-> StudiesJson(st.studies),
         active  |-> IF ~Nullish(st.activeStudyId) THEN st.activeStudyId
                     ELSE st.localStorage.active,
         pgn     |-> st.localStorage.pgn]]

getActiveStudy(st) == pickStudy(st.studies, st.activeStudyId)

\* game.reset(), the PGN of the study loaded when it has one, then
\* commitFromGame() and goToPly(fullLine.length): a PGN that cannot be loaded
\* leaves the reset game
openStudyPgn(st, study) ==
    LET attempt == StudyLoadPgn(study.pgn)
        hist    == IF study = NoStudy \/ study.pgn = Str("") \/ attempt.threw
                   THEN <<>> ELSE attempt.game
        ply     == clampPly(applyCommit(hist).viewPly, Len(hist))
    IN  [st EXCEPT !.fullLine = hist, !.viewPly = ply,
                   !.game = Replay(hist, ply, 0).game, !.fullPgn = StudyPgn(hist)]

\* boot(): what the script does with what storage holds when the page loads
boot(store, newId) ==
    LET list     == loadStudiesFromStorage(store)
        migrated == migrateLegacyPgn(store.pgn, list, newId)
        active   == IF ~Nullish(store.active) THEN store.active
                    ELSE migrated.activeStudyId
        st       == saveStudiesToStorage(
                        StudiesState(migrated.studies, active, store,
                                     <<>>, 0, <<>>, Str("")))
    IN  openStudyPgn(st, getActiveStudy(st))

selectStudy(st, id) ==
    LET current == getActiveStudy(st)
        kept    == IF current = NoStudy THEN st.studies
                   ELSE upsertStudy(st.studies, [current EXCEPT !.pgn = st.fullPgn])
        saved   == saveStudiesToStorage(
                       [st EXCEPT !.studies = kept, !.activeStudyId = id])
        next    == getActiveStudy(saved)
    IN  IF next = NoStudy THEN saved ELSE openStudyPgn(saved, next)

deleteStudy(st, id) ==
    LET list == SelectSeq(st.studies, LAMBDA s : s.id # id)
        left == [st EXCEPT !.studies = list]
    IN  IF st.activeStudyId = Str(id)
        THEN LET active == IF list = <<>> THEN JsNull ELSE Str(list[1].id)
                 saved  == saveStudiesToStorage([left EXCEPT !.activeStudyId = active])
             IN  IF ~Nullish(active) THEN selectStudy(saved, active)
                 ELSE openStudyPgn(saved, NoStudy)
        ELSE saveStudiesToStorage(left)

\* the submit handler of the new-study form: a blank name is ignored
submitNewStudy(st, name, color, newId) ==
    IF name = "" THEN st
    ELSE LET s     == createStudy(name, color, newId)
             saved == saveStudiesToStorage(
                          [st EXCEPT !.studies = upsertStudy(st.studies, s),
                                     !.activeStudyId = Str(s.id)])
         IN  openStudyPgn(saved, NoStudy)

StudiesNow ==
    StudiesState(studies, activeStudyId, localStorage, fullLine, viewPly, game, fullPgn)

\* the ids listed, and the ids a new study can get: one that no study has and
\* nothing names
ListedIds == { studies[i].id : i \in DOMAIN studies }
FreshIds ==
    { id \in StudyIds : /\ id \notin ListedIds
                        /\ Str(id) \notin {activeStudyId, localStorage.active} }

StudiesBecome(op, st) ==
    /\ studies' = st.studies
    /\ activeStudyId' = st.activeStudyId
    /\ localStorage' = st.localStorage
    /\ fullLine' = st.fullLine
    /\ viewPly' = st.viewPly
    /\ game' = st.game
    /\ fullPgn' = st.fullPgn
    /\ pgnRes' = PgnResult(op, JsUndefined, FALSE)
    /\ UNCHANGED <<treeVars, tlRes, trVars, stVars, appVars, tmVars, call>>

\* the page is loaded again
Boot ==
    \E newId \in FreshIds : StudiesBecome("boot", boot(localStorage, newId))

\* a click on a study of the list
SelectStudy(id) ==
    /\ id \in ListedIds
    /\ StudiesBecome("selectStudy", selectStudy(StudiesNow, Str(id)))

\* a click on the delete button of a study of the list
DeleteStudy(id) ==
    /\ id \in ListedIds
    /\ StudiesBecome("deleteStudy", deleteStudy(StudiesNow, id))

SubmitNewStudy(name, color) ==
    /\ Len(studies) < MaxStudies
    /\ \E newId \in FreshIds :
           StudiesBecome("newStudy", submitNewStudy(StudiesNow, name, color, newId))

-----------------------------------------------------------------------------

(* Training in the timeline app (src/unnamed/part_007): the mode buttons,  *)
(* the move and select handlers of the board, timeline navigation, and the *)
(* timers of the opponent autoplay.  Time is counted in steps of 100 ms.   *)
(* A setTimeout callback that is pending is kept with the time left until  *)
(* it is due; the callbacks fire in the order of their due times, not      *)
(* before they are due and possibly later.  The chess.js instance is the   *)
(* board of the app above, with its promotion.  studyColor is the colour   *)
(* of the active study.  What only draws the board (sync, minimalSync,     *)
(* ground.move and their timers) and the saving of the PGN are not kept.   *)

\* the timer ids in use at a time
MaxTimers == 3

\* OPPONENT_PAUSE_MS = 300
OPPONENT_PAUSE_MS == 3

\* the animation duration of the board when it sets none: 200
AnimMs == 2

\* the delayMs both callers of autoplayUntilUsersTurn pass: 500
AutoplayDelayMs == 5

\* the longest line a study holds when the page is loaded
MaxTrainLine == 3

\* the moves the board can be asked for
AppMoveObjs ==
    { MoveObj(g[1], g[2], p) : g \in AppGeometry, p \in {Undefined, "q", "n"} }

\* the games of up to n moves
RECURSIVE AppLines(_)
AppLines(n) ==
    IF n = 0 THEN {<<>>}
    ELSE LET shorter == AppLines(n - 1)
         IN  shorter \cup
             UNION { { Append(l, tryGameMove(l, m)) :
                           m \in { x \in AppMoveObjs : AppLegal(l, x) } } :
                     l \in { x \in shorter : Len(x) = n - 1 } }

\* the state the handlers and the timer callbacks work on
TrainState(line, ply, hist, pgn, tms, auto, pend, pick, md) ==
    [fullLine |-> line, viewPly |-> ply, game |-> hist, fullPgn |-> pgn,
     timers |-> tms, autoplayTimer |-> auto, pendingOpponentStartAt |-> pend,
     promoPick |-> pick, mode |-> md]

\* a pending callback: "step" is the step of the autoplay, "inc" the delayed
\* increment of viewPly, "apply" the delayed game.move of the move exp
Timer(id, due, fn, exp) == [id |-> id, due |-> due, fn |-> fn, exp |-> exp]

\* the id setTimeout hands out: one no pending timer has and autoplayTimer
\* does not hold; 0 when MaxTimers ids are in use
NextTimerId(st) ==
    LET used == { st.timers[i].id : i \in DOMAIN st.timers } \cup {st.autoplayTimer}
        free == (1..MaxTimers) \ used
    IN  IF free = {} THEN 0 ELSE Least(free)

\* setTimeout(fn, delay): the callback is due after those due no later
setTimeout(st, fn, exp, delay) ==
    LET k == Cardinality({ i \in DOMAIN st.timers : st.timers[i].due <= delay })
    IN  [st EXCEPT !.timers = SubSeq(@, 1, k)
                                  \o <<Timer(NextTimerId(st), delay, fn, exp)>>
                                  \o SubSeq(@, k + 1, Len(@))]

\* autoplayTimer = setTimeout(fn, delay)
setAutoplayTimer(st, fn, exp, delay) ==
    [setTimeout(st, fn, exp, delay) EXCEPT !.autoplayTimer = NextTimerId(st)]

stopAutoplay(st) ==
    IF st.autoplayTimer = 0 THEN st
    ELSE [st EXCEPT !.timers = SelectSeq(@, LAMBDA t : t.id # st.autoplayTimer),
                    !.autoplayTimer = 0]

\* setGameToPly(ply): reset() and the first moves of fullLine again; a move
\* the game rejects leaves the reset game
setGameToPlyTimed(st, ply) ==
    LET p    == clampPly(ply, Len(st.fullLine))
        hist == AppReplay(SubSeq(st.fullLine, 1, p), <<>>)
    IN  [st EXCEPT !.game = IF Len(hist) = p THEN hist ELSE <<>>]

goToPlyTimed(st, ply) ==
    LET p == clampPly(ply, Len(st.fullLine))
    IN  setGameToPlyTimed([st EXCEPT !.viewPly = p], p)

commitFromGameTimed(st) ==
    [st EXCEPT !.fullLine = st.game, !.fullPgn = GamePgn(st.game),
               !.viewPly = applyCommit(st.game).viewPly]

\* the step of autoplayUntilUsersTurn that never stops
autoplayStepForever(st, color) ==
    IF st.mode # "train" THEN st
    ELSE setAutoplayTimer(st, "step", NoVerbose, AutoplayDelayMs)

\* step() of autoplayUntilUsersTurn: the opponent's next move of the line is
\* played, its cursor step and its game.move delayed; a promotion is played
\* at once by goToPly
autoplayStep(st, color) ==
    LET exp == expectedMove(st.fullLine, st.viewPly)
    IN  IF st.mode # "train" THEN st
        ELSE IF isUsersTurn(color, st.viewPly) THEN st
        ELSE IF exp = NoVerbose THEN st
        ELSE IF exp.promotion = Undefined
        THEN LET startDelay == IF st.pendingOpponentStartAt > 0
                               THEN st.pendingOpponentStartAt
                               ELSE OPPONENT_PAUSE_MS
                 wait       == Max(AutoplayDelayMs, AnimMs + 1) + startDelay
                 consumed   == [st EXCEPT !.pendingOpponentStartAt = 0]
             IN  setAutoplayTimer(setTimeout(consumed, "inc", NoVerbose, startDelay),
                                  "apply", exp, wait)
        ELSE setAutoplayTimer(goToPlyTimed(st, st.viewPly + 1), "step", NoVerbose,
                              Max(AutoplayDelayMs, AnimMs + 1))

autoplayUntilUsersTurn(st) ==
    LET stopped == stopAutoplay(st)
    IN  IF stopped.mode # "train" THEN stopped
        ELSE setAutoplayTimer(stopped, "step", NoVerbose,
                              Max(AutoplayDelayMs, AnimMs + 1))

\* the callback of the timer t, which is no longer pending
timerCallback(st, color, t) ==
    CASE t.fn = "step" -> autoplayStep(st, color)
      [] t.fn = "inc" ->
            [st EXCEPT !.viewPly = clampPly(st.viewPly + 1, Len(st.fullLine))]
      [] t.fn = "apply" ->
            IF st.mode # "train" THEN st
            ELSE LET mv == tryGameMove(st.game, MoveObj(t.exp.from, t.exp.to,
                                                         t.exp.promotion))
                     applied == IF mv = NoVerbose
                                THEN setGameToPlyTimed(st, st.viewPly)
                                ELSE [st EXCEPT !.game = Append(@, mv)]
                 IN  autoplayStep(applied, color)

\* setGameToPlyTrain(p), the setGameToPly callback of the board
setGameToPlyTrainTimed(st, p) ==
    LET target == clampPly(p, Len(st.fullLine))
        prev   == st.viewPly
    IN  IF target = prev THEN st
        ELSE IF target = prev + 1
        THEN autoplayUntilUsersTurn(
                 [setGameToPlyTimed([st EXCEPT !.viewPly = target], target)
                     EXCEPT !.pendingOpponentStartAt = AnimMs + OPPONENT_PAUSE_MS])
        ELSE setGameToPlyTimed([st EXCEPT !.viewPly = target], target)

\* makeMoveCb(m), the makeMove callback of the board; own says that it is the
\* first call with the move the user made
makeMoveCbTimed(st, m, own) ==
    LET mv == tryGameMove(st.game, m)
    IN  IF mv = NoVerbose THEN [st |-> st, ret |-> NoVerbose]
        ELSE [st  |-> [commitFromGameTimed([st EXCEPT !.game = Append(@, mv)])
                          EXCEPT !.pendingOpponentStartAt =
                                     IF own THEN AnimMs + OPPONENT_PAUSE_MS ELSE 0],
              ret |-> mv]

\* handleTrainingMove with the callbacks of the board
handleTrainingMoveTimed(st, color, moveObj) ==
    LET line     == st.fullLine
        ply      == st.viewPly
        expected == expectedMove(line, ply)
    IN  IF ~isUsersTurn(color, ply)
        THEN [st |-> setGameToPlyTrainTimed(st, ply), ok |-> FALSE]
        ELSE IF expected # NoVerbose /\ sameMove(expected, moveObj)
        THEN [st |-> setGameToPlyTrainTimed(
                         st, IF expectedMove(line, ply + 1) # NoVerbose
                             THEN ply + 2 ELSE ply + 1),
              ok |-> TRUE]
        ELSE IF ply = Len(line)
        THEN LET made == makeMoveCbTimed(st, moveObj, TRUE)
                 opp  == expectedMove(line, ply + 1)
             IN  IF made.ret = NoVerbose
                 THEN [st |-> setGameToPlyTrainTimed(made.st, ply), ok |-> FALSE]
                 ELSE IF opp # NoVerbose
                 THEN [st |-> makeMoveCbTimed(
                                  made.st, MoveObj(opp.from, opp.to, opp.promotion),
                                  FALSE).st,
                       ok |-> TRUE]
                 ELSE [st |-> made.st, ok |-> TRUE]
        ELSE [st |-> setGameToPlyTrainTimed(st, ply), ok |-> FALSE]

\* enterPromotion(from, to)
enterPromotion(st, from, to) ==
    [st EXCEPT !.promoPick =
        Obj([from |-> from, to |-> to,
             squares |-> promoSquares(to, AppBoard(st.game)[from].color)])]

\* the move handler of the board in training mode
trainMove(st, color, from, to) ==
    IF isPromotionMove(st.game, from, to) THEN enterPromotion(st, from, to)
    ELSE LET r == handleTrainingMoveTimed(st, color, MoveObj(from, to, Undefined))
         IN  IF r.ok THEN r.st ELSE setGameToPlyTrainTimed(r.st, r.st.viewPly)

\* the move handler of the board in edit mode
editMove(st, from, to) ==
    LET edited == applyEditInPast(st.fullLine, st.viewPly)
        cut    == IF Len(edited.line) # Len(st.fullLine)
                  THEN setGameToPlyTimed([st EXCEPT !.fullLine = edited.line,
                                                    !.viewPly = edited.viewPly],
                                         edited.viewPly)
                  ELSE st
        mv     == tryGameMove(cut.game, MoveObj(from, to, Undefined))
    IN  IF isPromotionMove(cut.game, from, to) THEN enterPromotion(cut, from, to)
        ELSE IF mv = NoVerbose THEN cut
        ELSE commitFromGameTimed([cut EXCEPT !.game = Append(@, mv)])

\* events.move(from, to)
eventsMove(st, color, from, to) ==
    IF st.promoPick # JsNull THEN st
    ELSE IF st.mode = "train" THEN trainMove(st, color, from, to)
    ELSE editMove(st, from, to)

\* events.select(key); throws says whether game.move throws on a move it
\* rejects, which leaves the handler, or returns null
eventsSelect(st, key, throws) ==
    IF st.promoPick = JsNull THEN st
    ELSE LET idx == IndexOf(Get(st.promoPick, "squares"), key)
         IN  IF idx = 0 THEN st
             ELSE LET mv == tryGameMove(st.game,
                                        MoveObj(Get(st.promoPick, "from"),
                                                Get(st.promoPick, "to"),
                                                <<"q", "n", "r", "b">>[idx]))
                  IN  IF mv = NoVerbose
                      THEN IF throws THEN st ELSE [st EXCEPT !.promoPick = JsNull]
                      ELSE commitFromGameTimed(
                               [st EXCEPT !.game = Append(@, mv), !.promoPick = JsNull])

onEditClick(st) ==
    IF st.mode = "edit" THEN st
    ELSE stopAutoplay([st EXCEPT !.mode = "edit"])

onTrainClick(st) ==
    IF st.mode = "train" THEN st
    ELSE autoplayUntilUsersTurn(goToPlyTimed([st EXCEPT !.mode = "train"], 0))

\* goPrevPly() and goNextPly(): nothing in training mode
goPrevPly(st) ==
    IF st.mode = "train" THEN st
    ELSE goToPlyTimed(st, nextViewPly(st.viewPly, 0 - 1, Len(st.fullLine)))

goNextPly(st) ==
    IF st.mode = "train" THEN st
    ELSE goToPlyTimed(st, nextViewPly(st.viewPly, 1, Len(st.fullLine)))

TrainNow ==
    TrainState(fullLine, viewPly, game, fullPgn, timers, autoplayTimer,
               pendingOpponentStartAt, promoPick, mode)

\* the state after an event; an event that would need more timer ids than
\* MaxTimers is not followed
TrainBecomes(st) ==
    /\ \A i \in DOMAIN st.timers : st.timers[i].id # 0
    /\ fullLine' = st.fullLine
    /\ viewPly' = st.viewPly
    /\ game' = st.game
    /\ fullPgn' = st.fullPgn
    /\ timers' = st.timers
    /\ autoplayTimer' = st.autoplayTimer
    /\ pendingOpponentStartAt' = st.pendingOpponentStartAt
    /\ promoPick' = st.promoPick
    /\ mode' = st.mode
    /\ UNCHANGED <<treeVars, tlRes, trVars, stVars, redoStack, undoPath, pgnRes,
                   sdVars, call>>

OnEditClick ==
    /\ TrainBecomes(onEditClick(TrainNow))
    /\ appRes' = AppResult("onEditClick", promoPick)

OnTrainClick ==
    /\ TrainBecomes(onTrainClick(TrainNow))
    /\ appRes' = AppResult("onTrainClick", promoPick)

EventsMove(from, to) ==
    /\ TrainBecomes(eventsMove(TrainNow, studyColor, from, to))
    /\ appRes' = AppResult("move", promoPick)

EventsSelect(key) ==
    /\ \E throws \in BOOLEAN : TrainBecomes(eventsSelect(TrainNow, key, throws))
    /\ appRes' = AppResult("select", promoPick)

GoPrevPly ==
    /\ TrainBecomes(goPrevPly(TrainNow))
    /\ appRes' = AppResult("goPrevPly", promoPick)

GoNextPly ==
    /\ TrainBecomes(goNextPly(TrainNow))
    /\ appRes' = AppResult("goNextPly", promoPick)

\* the callback that is first in line fires once it is due
TimerFires ==
    /\ timers # <<>>
    /\ timers[1].due = 0
    /\ TrainBecomes(timerCallback([TrainNow EXCEPT !.timers = Tail(timers)],
                                  studyColor, timers[1]))
    /\ appRes' = AppResult("timer", promoPick)

\* 100 ms pass
TimePasses ==
    /\ \/ \E i \in DOMAIN timers : timers[i].due > 0
       \/ pendingOpponentStartAt > 0
    /\ TrainBecomes([TrainNow EXCEPT
                        !.timers = [i \in DOMAIN timers |->
                                       [timers[i] EXCEPT !.due = Max(@ - 1, 0)]],
                        !.pendingOpponentStartAt = Max(@ - 1, 0)])
    /\ appRes' = AppResult("time", promoPick)

-----------------------------------------------------------------------------

(* Specifications *)

TreeInit == createTreeSession /\ TimelineIdle /\ TrainingIdle /\ StorageIdle /\ AppIdle /\ PgnIdle /\ CallIdle

TreeNext ==
    \/ \E s \in Sessions : goBack(s) /\ UNCHANGED <<tlVars, trVars, stVars, appVars, pgnVars, call>>
    \/ \E s \in Sessions, m \in TreeMoves :
           goForwardIfExists(s, m) /\ UNCHANGED <<tlVars, trVars, stVars, appVars, pgnVars, call>>
    \/ \E s \in Sessions : resetSessionToRoot(s) /\ UNCHANGED <<tlVars, trVars, stVars, appVars, pgnVars, call>>
    \/ \E s \in Sessions, m \in TreeMoves :
           addVariationAndGo(s, m) /\ UNCHANGED <<tlVars, trVars, stVars, appVars, pgnVars, call>>
    \/ \E s \in Sessions : deleteCurrentAndGoParent(s) /\ UNCHANGED <<tlVars, trVars, stVars, appVars, pgnVars, call>>

SpecTree == TreeInit /\ [][TreeNext]_vars

TimelineInit == createHarness /\ TreeIdle /\ TrainingIdle /\ StorageIdle /\ AppIdle /\ PgnIdle /\ CallIdle

TimelineNext ==
    \/ \E m \in BoardMoves : MakeMove(m) /\ UNCHANGED <<treeVars, trVars, stVars, appVars, pgnVars, call>>
    \/ \E p \in Plies : GoToPly(p) /\ UNCHANGED <<treeVars, trVars, stVars, appVars, pgnVars, call>>
    \/ GoPrev /\ UNCHANGED <<treeVars, trVars, stVars, appVars, pgnVars, call>>
    \/ GoNext /\ UNCHANGED <<treeVars, trVars, stVars, appVars, pgnVars, call>>
    \/ \E p \in Plies : JumpTo(p) /\ UNCHANGED <<treeVars, trVars, stVars, appVars, pgnVars, call>>
    \/ \E l \in LegalLines(MaxPgnLine) : LoadPgn(l) /\ UNCHANGED <<treeVars, trVars, stVars, appVars, pgnVars, call>>

SpecTimeline == TimelineInit /\ [][TimelineNext]_vars

\* a training session starts from any recorded line with the cursor anywhere
\* on it and the game replayed to the cursor
TrainingInit ==
    /\ TreeIdle
    /\ StorageIdle
    /\ AppIdle /\ PgnIdle /\ CallIdle
    /\ \E l \in LegalLines(MaxStartLine), p \in 0..MaxStartLine :
           /\ p <= Len(l)
           /\ fullLine = l
           /\ viewPly = p
           /\ game = SubSeq(l, 1, p)
    /\ tlRes = TlResult("createHarness", 0, NullMove, NoVerbose, 0, 0)
    /\ studyColor \in Colors
    /\ trIn = [TrainingInput(<<>>, 0, "white", NullMove, {}) EXCEPT !.called = FALSE]
    /\ trCalls = <<>>
    /\ trRes = [kind |-> "none", mv |-> NoVerbose]

TrainingNext ==
    \E m \in BoardMoves, f \in SUBSET (1..MaxCalls) :
        HandleTrainingMove(m, f) /\ UNCHANGED <<treeVars, stVars, appVars, pgnVars, call>>

SpecTraining == TrainingInit /\ [][TrainingNext]_vars

\* the app state is any the callers build; nothing is stored yet
StorageInit ==
    /\ TreeIdle
    /\ TimelineIdle
    /\ TrainingIdle
    /\ AppIdle /\ PgnIdle /\ CallIdle
    /\ appState \in AppStates
    /\ storage = NoItem
    /\ loaded = Loaded("none", NoItem, Returns(JsUndefined))

StorageNext ==
    \/ SaveToStorage /\ UNCHANGED <<treeVars, tlVars, trVars, appVars, pgnVars, call>>
    \/ LoadFromStorage /\ UNCHANGED <<treeVars, tlVars, trVars, appVars, pgnVars, call>>
    \/ \E json \in ForeignTexts \cup {serializeAppState(appState)} :
           DeserializeAppState(json) /\ UNCHANGED <<treeVars, tlVars, trVars, appVars, pgnVars, call>>

SpecStorage == StorageInit /\ [][StorageNext]_vars

\* several sessions made over one root, each running the session operations
SharedInit == createSharedSessions /\ TimelineIdle /\ TrainingIdle /\ StorageIdle /\ AppIdle /\ PgnIdle /\ CallIdle

SpecShared == SharedInit /\ [][TreeNext]_vars

\* the app after its script has run: an empty tree, edit mode
AppInit ==
    /\ nodeMove = [n \in 0..MaxAppNodes |-> NullMove]
    /\ nodeChildren = [n \in 0..MaxAppNodes |-> <<>>]
    /\ path = [s \in {1} |-> <<Root>>]
    /\ treeRes = Result("createTreeSession", TRUE, "", FALSE, Root)
    /\ TimelineIdle /\ TrainingIdle /\ StorageIdle /\ AppIdle /\ PgnIdle /\ CallIdle

AppNext ==
    \/ \E d \in AppDrags : onUserMove(d[1], d[2])
    \/ \E key \in AppKeys : onBoardSelect(key)
    \/ undo
    \/ redo
    \/ \E m \in {"edit", "train"} : setMode(m)

SpecApp == AppInit /\ [][AppNext]_vars

\* the timeline app with nothing loaded yet
PgnInit ==
    /\ TreeIdle /\ TimelineIdle /\ TrainingIdle /\ StorageIdle
    /\ AppIdle /\ PgnIdle /\ CallIdle

PgnNext ==
    \/ \E text \in PgnInputs : ApplyPgnFromInput(text)
    \/ \E p \in Plies : GoToPlyApp(p)

SpecPgn == PgnInit /\ [][PgnNext]_vars

\* the pure functions, each applied to arguments drawn at the start
PureInit ==
    /\ TreeIdle /\ TimelineIdle /\ TrainingIdle /\ StorageIdle /\ AppIdle /\ PgnIdle
    /\ call \in { FnCall("none", "line", a, Null) : a \in LineArgs }
                \cup { FnCall("none", "fens", a, Null) : a \in FenArgs }
                \cup { FnCall("none", "migrate", a, Null) : a \in MigrateArgs }

PureNext ==
    \/ ComputeLastMove
    \/ BranchLineIfNeeded
    \/ PositionKeyFromFen
    \/ MigrateLegacyPgn

SpecPure == PureInit /\ [][PureNext]_vars

\* the studies after the script has run on a browser that holds no studies
\* yet, with or without the single PGN of the version before
StudiesInit ==
    /\ TreeIdle /\ TrainingIdle /\ StorageIdle /\ AppIdle /\ CallIdle
    /\ tlRes = TlResult("createHarness", 0, NullMove, NoVerbose, 0, 0)
    /\ pgnRes = PgnResult("boot", JsUndefined, FALSE)
    /\ timers = <<>> /\ autoplayTimer = 0 /\ pendingOpponentStartAt = 0
    /\ \E legacyPgn \in LegacyPgns, newId \in StudyIds :
           LET st == boot([studies |-> JsNull, active |-> JsNull, pgn |-> legacyPgn],
                          newId)
           IN  /\ studies = st.studies
               /\ activeStudyId = st.activeStudyId
               /\ localStorage = st.localStorage
               /\ fullLine = st.fullLine
               /\ viewPly = st.viewPly
               /\ game = st.game
               /\ fullPgn = st.fullPgn

StudiesNext ==
    \/ Boot
    \/ \E id \in StudyIds : SelectStudy(id)
    \/ \E id \in StudyIds : DeleteStudy(id)
    \/ \E name \in {"", "Jobava"}, color \in Colors : SubmitNewStudy(name, color)

SpecStudies == StudiesInit /\ [][StudiesNext]_vars

\* the timeline app in edit mode, at the end of the line of the study that
\* was loaded
TrainInit ==
    /\ TreeIdle /\ StorageIdle /\ AppIdle /\ PgnIdle /\ CallIdle
    /\ tlRes = TlResult("createHarness", 0, NullMove, NoVerbose, 0, 0)
    /\ studyColor \in Colors
    /\ trIn = [TrainingInput(<<>>, 0, "white", NullMove, {}) EXCEPT !.called = FALSE]
    /\ trCalls = <<>>
    /\ trRes = [kind |-> "none", mv |-> NoVerbose]
    /\ fullLine \in AppLines(MaxTrainLine)
    /\ viewPly = Len(fullLine)
    /\ game = fullLine

TrainNext ==
    \/ OnEditClick
    \/ OnTrainClick
    \/ \E d \in AppDrags : EventsMove(d[1], d[2])
    \/ \E key \in AppKeys : EventsSelect(key)
    \/ GoPrevPly
    \/ GoNextPly
    \/ TimerFires
    \/ TimePasses

SpecTrain == TrainInit /\ [][TrainNext]_vars

\* training entered and the board then left alone: every callback fires in
\* the end, and time goes on
AutoplayNext ==
    \/ OnTrainClick
    \/ TimerFires
    \/ TimePasses

SpecAutoplay ==
    /\ TrainInit
    /\ [][AutoplayNext]_vars
    /\ WF_vars(TimerFires)
    /\ WF_vars(TimePasses)

Spec == SpecTree

-----------------------------------------------------------------------------
(* Claims on the tree session: SpecTree *)

\* C1: after any sequence of session operations the path is non-empty, starts
\* at the root, and every entry is a child of the entry before it.
C1_PathIsChain ==
    \A s \in Sessions :
        /\ Len(path[s]) >= 1
        /\ path[s][1] = Root
        /\ \A i \in 1..(Len(path[s]) - 1) :
               path[s][i + 1] \in Range(nodeChildren[path[s][i]])

\* C1 witness: a leaf was deleted three levels down and the cursor stands on
\* its parent, two levels below the root.
C1_Witness ==
    /\ treeRes.op = "deleteCurrentAndGoParent"
    /\ treeRes.ok
    /\ Len(path[1]) = 3

\* C2: no node has two children whose moves are equal under sameMove.
C2_NoDuplicateChildren ==
    \A n \in NodeIds :
        \A i, j \in 1..Len(nodeChildren[n]) :
            i # j => ~sameMove(nodeMove[nodeChildren[n][i]], nodeMove[nodeChildren[n][j]])

\* C2 witness: addVariationAndGo found the move among several children and
\* followed it instead of creating a node.
C2_Witness ==
    /\ treeRes.op = "addVariationAndGo"
    /\ ~treeRes.created
    /\ Len(path[1]) >= 2
    /\ Len(nodeChildren[path[1][Len(path[1]) - 1]]) >= 2

-----------------------------------------------------------------------------
(* Claims on the timeline: SpecTimeline *)

NavigationOps == {"goToPly", "goPrev", "goNext", "jumpTo"}

\* C3: the cursor stays within the line: 0 <= viewPly <= fullLine.length.
C3_CursorInRange == 0 <= viewPly /\ viewPly <= Len(fullLine)

\* C3 witness: goToPly was asked for a ply beyond the end of a line of two or
\* more moves, or for a negative one, and the cursor was clamped.
C3_Witness ==
    /\ tlRes.op = "goToPly"
    /\ Len(fullLine) >= 2
    /\ \/ tlRes.ply > Len(fullLine) /\ viewPly = Len(fullLine)
       \/ tlRes.ply < 0 /\ viewPly = 0 /\ tlRes.at > 0

\* C4: a navigation step leaves fullLine as it was.
C4_NavigationKeepsLine ==
    [][tlRes'.op \in NavigationOps => fullLine' = fullLine]_vars

\* C4 witness: a navigation call moved the cursor back inside a line of two or
\* more moves.
C4_Witness ==
    /\ tlRes.op \in NavigationOps
    /\ Len(fullLine) >= 2
    /\ viewPly < tlRes.at

\* C5: a legal move played at cursor k makes the line its first k moves
\* followed by that move, and puts the cursor at k + 1.
C5_BranchOnEdit ==
    [][(tlRes'.op = "makeMove" /\ IsLegal(SubSeq(fullLine, 1, viewPly), tlRes'.move))
        => /\ Len(fullLine') = viewPly + 1
           /\ SubSeq(fullLine', 1, viewPly) = SubSeq(fullLine, 1, viewPly)
           /\ sameMove(fullLine'[viewPly + 1], tlRes'.move)
           /\ tlRes'.ret = fullLine'[viewPly + 1]
           /\ viewPly' = viewPly + 1]_vars

\* C5 witness: a move was played and accepted with the cursor inside the line,
\* two or more recorded moves ahead of it.
C5_Witness ==
    /\ tlRes.op = "makeMove"
    /\ tlRes.ret # NoVerbose
    /\ tlRes.at >= 1
    /\ tlRes.len >= tlRes.at + 2
    /\ Len(fullLine) = tlRes.at + 1

\* C6: a move the validator rejects returns null and leaves fullLine and
\* viewPly as they were, wherever the cursor is.
C6_IllegalMoveChangesNothing ==
    [][(tlRes'.op = "makeMove" /\ ~IsLegal(SubSeq(fullLine, 1, viewPly), tlRes'.move))
        => /\ tlRes'.ret = NoVerbose
           /\ fullLine' = fullLine
           /\ viewPly' = viewPly]_vars

-----------------------------------------------------------------------------
(* Claims on the training controller: SpecTraining *)

MadeCalls(fn) == { i \in 1..Len(trCalls) : trCalls[i].fn = fn }

UsersTurn == isUsersTurn(trIn.studyColor, trIn.viewPly)

Expected == expectedMove(trIn.fullLine, trIn.viewPly)

MatchesExpected == Expected # NoVerbose /\ sameMove(Expected, trIn.move)

\* C7: on the opponent's turn handleTrainingMove returns null, whatever the
\* move, the line and the cursor.
C7_OffTurnRejected ==
    (trIn.called /\ ~UsersTurn) => trRes.kind = "null"

\* C7 witness: the recorded move of the position was submitted on the
\* opponent's turn and was rejected.
C7_Witness ==
    /\ trIn.called
    /\ ~UsersTurn
    /\ MatchesExpected
    /\ trRes.kind = "null"

C9_MakeMoveOnlyAtEnd ==
    (trIn.called /\ MadeCalls("makeMove") # {})
        => /\ UsersTurn
           /\ trIn.viewPly = Len(trIn.fullLine)
           /\ ~MatchesExpected

\* C9 witness: makeMove was called at the end of a line of one or more moves.
C9_Witness ==
    /\ trIn.called
    /\ MadeCalls("makeMove") # {}
    /\ Len(trIn.fullLine) >= 1

\* C10: a move other than the expected one, on the user's turn inside the
\* line, returns null, calls setGameToPly(viewPly) and leaves fullLine alone.
C10_WrongMoveRejected ==
    (trIn.called /\ UsersTurn /\ trIn.viewPly < Len(trIn.fullLine) /\ ~MatchesExpected)
        => /\ trRes.kind = "null"
           /\ Len(trCalls) = 1
           /\ trCalls[1].fn = "setGameToPly"
           /\ trCalls[1].arg = trIn.viewPly
           /\ fullLine = trIn.fullLine

\* C10 witness: a move the position allows, but not the recorded one, was
\* submitted inside the line and rejected.
C10_Witness ==
    /\ trIn.called
    /\ UsersTurn
    /\ trIn.viewPly < Len(trIn.fullLine)
    /\ ~MatchesExpected
    /\ IsLegal(SubSeq(trIn.fullLine, 1, trIn.viewPly), trIn.move)
    /\ trRes.kind = "null"

\* the move-executor accepts the submitted move: the position allows it and
\* the first callback call does not throw
ExecutorAccepts ==
    /\ IsLegal(SubSeq(trIn.fullLine, 1, trIn.viewPly), trIn.move)
    /\ 1 \notin trIn.faults

\* the move the validator applies for the submitted one
AppliedMove == GameMove(SubSeq(trIn.fullLine, 1, trIn.viewPly), trIn.move).mv

\* C11 as stated: with the cursor at the end of the line, any move the
\* move-executor accepts makes handleTrainingMove call makeMove with it and
\* return the applied move, whoever is to move.
C11_ExtendAtEndAnyTurn ==
    (trIn.called /\ trIn.viewPly = Len(trIn.fullLine) /\ ExecutorAccepts)
        => /\ Len(trCalls) >= 1
           /\ trCalls[1].fn = "makeMove"
           /\ trCalls[1].move = trIn.move
           /\ trRes.kind = "move"
           /\ trRes.mv = AppliedMove

\* C11: on the user's turn with the cursor at the end of the line, any move
\* the move-executor accepts makes handleTrainingMove call makeMove with that
\* move first and return the applied move makeMove produced; the line grows by
\* that move.
C11_ExtendAtEnd ==
    (trIn.called /\ UsersTurn /\ trIn.viewPly = Len(trIn.fullLine) /\ ExecutorAccepts)
        => /\ Len(trCalls) >= 1
           /\ trCalls[1].fn = "makeMove"
           /\ trCalls[1].move = trIn.move
           /\ trCalls[1].ret = AppliedMove
           /\ trRes.kind = "move"
           /\ trRes.mv = AppliedMove
           /\ trRes.mv # NoVerbose
           /\ fullLine = Append(trIn.fullLine, AppliedMove)

\* C11 witness: a move was appended at the end of a line of two moves and the
\* applied move came back.
C11_Witness ==
    /\ trIn.called
    /\ UsersTurn
    /\ trIn.viewPly = Len(trIn.fullLine)
    /\ Len(trIn.fullLine) = 2
    /\ ExecutorAccepts
    /\ trRes.kind = "move"
    /\ Len(fullLine) = 3

\* C12: handleTrainingMove returns normally, null or a truthy value, whatever
\* the callbacks do.
C12_NeverThrows ==
    trIn.called => trRes.kind \in {"null", "true", "move"}

\* C13: when handleTrainingMove returns null, the last setGameToPly call it
\* made was setGameToPly(viewPly) with the viewPly it was given, and when that
\* call did not throw the cursor is back there.
C13_RejectionRestores ==
    (trIn.called /\ trRes.kind = "null")
        => /\ MadeCalls("setGameToPly") # {}
           /\ LET last == CHOOSE i \in MadeCalls("setGameToPly") :
                              \A j \in MadeCalls("setGameToPly") : j <= i
              IN  /\ trCalls[last].arg = trIn.viewPly
                  /\ last = Len(trCalls)
                  /\ ~trCalls[last].threw => viewPly = trIn.viewPly

\* C13 witness: the advance over the expected move threw, the display was
\* put back by a second setGameToPly call and the move was rejected.
C13_Witness ==
    /\ trIn.called
    /\ trRes.kind = "null"
    /\ MatchesExpected
    /\ Len(trCalls) = 2
    /\ trCalls[1].threw
    /\ ~trCalls[2].threw
    /\ trCalls[2].arg = trIn.viewPly

-----------------------------------------------------------------------------
(* Claims on deletion, repeated insertion and failures: SpecTree *)

\* the step is a call of the operation by session s
GoBackStep(s)       == treeRes'.op = "goBack" /\ goBack(s)
GoForwardStep(s, m) == treeRes'.op = "goForwardIfExists" /\ goForwardIfExists(s, m)
ResetStep(s)        == treeRes'.op = "resetSessionToRoot" /\ resetSessionToRoot(s)
AddStep(s, m)       == treeRes'.op = "addVariationAndGo" /\ addVariationAndGo(s, m)
DeleteStep(s)       ==
    treeRes'.op = "deleteCurrentAndGoParent" /\ deleteCurrentAndGoParent(s)

\* every node is as it was
TreeUntouched == nodeMove' = nodeMove /\ nodeChildren' = nodeChildren

\* the children of n whose move is m, as positions in n.children
ChildrenFor(children, moves, n, m) ==
    { i \in 1..Len(children[n]) : sameMove(moves[children[n][i]], m) }

\* C14 as stated: deleteCurrentAndGoParent on a current node with one or more
\* children fails with has-children and changes nothing, wherever the cursor is.
C14_DeleteRefusedHasChildren ==
    [][\A s \in Sessions :
          (DeleteStep(s) /\ Len(nodeChildren[currentNode(s)]) >= 1)
              => /\ ~treeRes'.ok
                 /\ treeRes'.reason = "has-children"
                 /\ TreeUntouched
                 /\ path' = path]_vars

\* C14: deleteCurrentAndGoParent on a current node with one or more children
\* fails and leaves the tree and the path unchanged; the reason is
\* has-children below the root and at-root on the root.
C14_DeleteRefused ==
    [][\A s \in Sessions :
          (DeleteStep(s) /\ Len(nodeChildren[currentNode(s)]) >= 1)
              => /\ ~treeRes'.ok
                 /\ treeRes'.reason = IF currentNode(s) = Root
                                      THEN "at-root" ELSE "has-children"
                 /\ TreeUntouched
                 /\ path' = path]_vars

\* C14 witness: a deletion was refused with has-children two levels below the
\* root, and the node still has its child.
C14_Witness ==
    /\ treeRes.op = "deleteCurrentAndGoParent"
    /\ ~treeRes.ok
    /\ treeRes.reason = "has-children"
    /\ Len(path[1]) = 3
    /\ Len(nodeChildren[currentNode(1)]) >= 1

\* C15 as stated: deleteCurrentAndGoParent on a current node without children
\* succeeds, wherever the cursor is.
C15_DeleteLeafAlwaysSucceeds ==
    [][\A s \in Sessions :
          (DeleteStep(s) /\ Len(nodeChildren[currentNode(s)]) = 0)
              => treeRes'.ok]_vars

\* C15: deleteCurrentAndGoParent on a current node that has no children, is
\* not the root and is among its parent's children succeeds: the parent's
\* children are the old ones without the current node, in the old order and
\* one fewer, every other node is as it was, and the cursor is on the parent.
C15_DeleteLeaf ==
    [][\A s \in Sessions :
          (/\ DeleteStep(s)
           /\ Len(nodeChildren[currentNode(s)]) = 0
           /\ Len(path[s]) > 1
           /\ currentNode(s) \in Range(nodeChildren[path[s][Len(path[s]) - 1]]))
              => LET cur    == currentNode(s)
                     parent == path[s][Len(path[s]) - 1]
                     Kept(x) == x # cur
                 IN  /\ treeRes'.ok
                     /\ nodeChildren'[parent] = SelectSeq(nodeChildren[parent], Kept)
                     /\ Len(nodeChildren'[parent]) = Len(nodeChildren[parent]) - 1
                     /\ \A n \in NodeIds \ {parent, cur} :
                            /\ nodeChildren'[n] = nodeChildren[n]
                            /\ nodeMove'[n] = nodeMove[n]
                     /\ nodeMove'[parent] = nodeMove[parent]
                     /\ path'[s] = Pop(path[s])
                     /\ Last(path'[s]) = parent]_vars

\* C15 witness: a leaf was deleted from between two siblings, which stay in
\* their order under the parent the cursor is now on.
C15_Witness ==
    /\ treeRes.op = "deleteCurrentAndGoParent"
    /\ treeRes.ok
    /\ Len(nodeChildren[currentNode(1)]) = 2
    /\ nodeMove[nodeChildren[currentNode(1)][1]] = MoveObj("e2", "e4", Undefined)
    /\ nodeMove[nodeChildren[currentNode(1)][2]] = MoveObj("a7", "a8", "q")

\* C16: addVariationAndGo(session, mv) puts the cursor on a child of the
\* starting node that carries mv, the only such child; goBack returns to the
\* starting node and leaves the tree alone; and addVariationAndGo with a move
\* the starting node already has a child for reports created=false, lands on
\* that very child and adds nothing.  So the second of two calls with the
\* same mv, with goBack in between, finds the node the first call made.
C16_AddTwiceOneChild ==
    [][\A s \in Sessions :
          /\ \A m \in TreeMoves :
                 AddStep(s, m)
                     => LET cur    == currentNode(s)
                            before == ChildrenFor(nodeChildren, nodeMove, cur, m)
                            after  == ChildrenFor(nodeChildren', nodeMove', cur, m)
                        IN  /\ treeRes'.ok
                            /\ path'[s] = Append(path[s], treeRes'.node)
                            /\ Cardinality(after) = 1
                            /\ \A i \in after : nodeChildren'[cur][i] = treeRes'.node
                            /\ treeRes'.created = (before = {})
                            /\ before # {}
                                   => /\ \A i \in before :
                                             nodeChildren[cur][i] = treeRes'.node
                                      /\ TreeUntouched
          /\ (GoBackStep(s) /\ Len(path[s]) > 1)
                 => /\ path'[s] = Pop(path[s])
                    /\ TreeUntouched]_vars

\* C16 witness: addVariationAndGo found the move already under the node the
\* cursor had gone back to, one level below the root, and followed it.
C16_Witness ==
    /\ treeRes.op = "addVariationAndGo"
    /\ treeRes.ok
    /\ ~treeRes.created
    /\ Len(path[1]) = 3
    /\ currentNode(1) = treeRes.node

FailureReasons == {"at-root", "no-such-child", "has-children", "not-a-child"}

\* C17: a goBack, goForwardIfExists or deleteCurrentAndGoParent call that
\* reports failure gives one of the four reasons (goBack: at-root,
\* goForwardIfExists: no-such-child) and leaves the path and every node as
\* they were.
C17_FailureChangesNothing ==
    [][\A s \in Sessions :
          /\ (GoBackStep(s) /\ ~treeRes'.ok)
                 => treeRes'.reason = "at-root" /\ TreeUntouched /\ path' = path
          /\ \A m \in TreeMoves :
                 (GoForwardStep(s, m) /\ ~treeRes'.ok)
                     => /\ treeRes'.reason = "no-such-child"
                        /\ TreeUntouched
                        /\ path' = path
          /\ (DeleteStep(s) /\ ~treeRes'.ok)
                 => /\ treeRes'.reason \in FailureReasons \ {"no-such-child"}
                    /\ TreeUntouched
                    /\ path' = path]_vars

\* C17 witness: goForwardIfExists failed below the root on a node that has a
\* child, for another move.
C17_Witness ==
    /\ treeRes.op = "goForwardIfExists"
    /\ ~treeRes.ok
    /\ treeRes.reason = "no-such-child"
    /\ Len(path[1]) >= 2
    /\ Len(nodeChildren[currentNode(1)]) >= 1

\* C18: goBack, goForwardIfExists and resetSessionToRoot leave every node's
\* move and children as they were; isExpectedMove and currentNode read the
\* state and assign nothing.
C18_BrowsingKeepsTree ==
    [][\A s \in Sessions :
          (\/ GoBackStep(s)
           \/ \E m \in TreeMoves : GoForwardStep(s, m)
           \/ ResetStep(s))
              => TreeUntouched]_vars

\* C18 witness: the cursor was reset to the root from the end of a line of
\* three nodes, which is still there.
C18_Witness ==
    /\ treeRes.op = "resetSessionToRoot"
    /\ path[1] = <<Root>>
    /\ \E a, b, c \in NodeIds \ {Root} :
           /\ nodeChildren[Root] = <<a>>
           /\ nodeChildren[a] = <<b>>
           /\ nodeChildren[b] = <<c>>
           /\ isExpectedMove(1, nodeMove[a])

-----------------------------------------------------------------------------
(* Claims on persistence: SpecStorage *)

OpeningsOf(state) == Get(state, "openings").items

\* every opening has a non-empty id, a non-empty name and a trainAs of white
\* or black
WellFormed(state) ==
    \A i \in 1..Len(OpeningsOf(state)) :
        LET o == OpeningsOf(state)[i]
        IN  /\ Get(o, "id").t = "string" /\ Get(o, "id").s # ""
            /\ Get(o, "name").t = "string" /\ Get(o, "name").s # ""
            /\ Get(o, "trainAs") \in {Str("white"), Str("black")}

\* two moves read alike: both null, or equal from, to and promotion
SameJsMove(x, y) ==
    IF Nullish(x) \/ Nullish(y) THEN x = y
    ELSE /\ Get(x, "from") = Get(y, "from")
         /\ Get(x, "to") = Get(y, "to")
         /\ Get(x, "promotion") = Get(y, "promotion")

\* two trees have the same moves at the same positions, children in the same
\* order
RECURSIVE SameShape(_, _)
SameShape(a, b) ==
    /\ SameJsMove(Get(a, "move"), Get(b, "move"))
    /\ IsArray(Get(a, "children"))
    /\ IsArray(Get(b, "children"))
    /\ Len(Get(a, "children").items) = Len(Get(b, "children").items)
    /\ \A i \in 1..Len(Get(a, "children").items) :
           SameShape(Get(a, "children").items[i], Get(b, "children").items[i])

\* the last load read the text serializeAppState makes of the app state
ReadOwnText == loaded.op # "none" /\ loaded.json = serializeAppState(appState)

\* C19: for an app state whose openings have a non-empty id and name and a
\* trainAs of white or black, deserializing its serialization (directly or by
\* way of the storage) does not throw and yields as many openings, in the same
\* order, each with the same id, name and trainAs and a tree of the same shape.
C19_RoundTrip ==
    (ReadOwnText /\ WellFormed(appState))
        => /\ ~loaded.threw
           /\ Len(OpeningsOf(loaded.state)) = Len(OpeningsOf(appState))
           /\ \A i \in 1..Len(OpeningsOf(appState)) :
                  LET was == OpeningsOf(appState)[i]
                      now == OpeningsOf(loaded.state)[i]
                  IN  /\ Get(now, "id") = Get(was, "id")
                      /\ Get(now, "name") = Get(was, "name")
                      /\ Get(now, "trainAs") = Get(was, "trainAs")
                      /\ SameShape(Get(was, "root"), Get(now, "root"))

\* C19 witness: two openings were saved and loaded back from the storage, one
\* of them with two variations at the root; what came back is not the very
\* value that was saved (the text leaves undefined members out).
C19_Witness ==
    /\ loaded.op = "loadFromStorage"
    /\ ReadOwnText
    /\ WellFormed(appState)
    /\ ~loaded.threw
    /\ Len(OpeningsOf(loaded.state)) = 2
    /\ \E i \in 1..2 :
           Len(Get(Get(OpeningsOf(loaded.state)[i], "root"), "children").items) = 2
    /\ OpeningsOf(loaded.state) # OpeningsOf(appState)

\* C20: every state deserializeAppState or loadFromStorage returns has an
\* activeOpeningId that is null or the id of one of the returned openings.
C20_ActiveOpeningResolved ==
    (loaded.op # "none" /\ ~loaded.threw)
        => LET active == Get(loaded.state, "activeOpeningId")
           IN  \/ active = JsNull
               \/ \E i \in 1..Len(OpeningsOf(loaded.state)) :
                      Get(OpeningsOf(loaded.state)[i], "id") = active

\* the last load read a text that spells an object or an array
ReadPayload ==
    /\ loaded.op # "none"
    /\ loaded.json.t = "text"
    /\ loaded.json.doc.t \in {"object", "array"}

\* C21: whenever the text read spells a payload whose schemaVersion is not
\* the SCHEMA_VERSION constant (another number, a string, or none at all), the
\* load throws the error that names schemaVersion and yields no state, whatever
\* the openings and the activeOpeningId of the payload are.
C21_SchemaGuard ==
    (ReadPayload /\ Get(loaded.json.doc, "schemaVersion") # Num(SCHEMA_VERSION))
        => /\ loaded.threw
           /\ loaded.error = "deserializeAppState: unsupported schemaVersion"
           /\ loaded.state = JsUndefined

\* C21 witness: a payload of schemaVersion 999 whose openings are not even an
\* array was read and refused for its schemaVersion.
C21_Witness ==
    /\ ReadPayload
    /\ Get(loaded.json.doc, "schemaVersion") = Num(999)
    /\ ~IsArray(Get(loaded.json.doc, "openings"))
    /\ loaded.threw
    /\ loaded.error = "deserializeAppState: unsupported schemaVersion"

\* a tree in which any node may lack its children member and nothing else is
\* wrong: an object whose children, where present, are an array of such trees
RECURSIVE PartialTree(_)
PartialTree(node) ==
    /\ node.t = "object"
    /\ \/ Get(node, "children") = JsUndefined
       \/ /\ IsArray(Get(node, "children"))
          /\ \A i \in 1..Len(Get(node, "children").items) :
                 PartialTree(Get(node, "children").items[i])

\* every node of the tree has a children array
RECURSIVE EveryNodeHasChildren(_)
EveryNodeHasChildren(node) ==
    /\ IsArray(Get(node, "children"))
    /\ \A i \in 1..Len(Get(node, "children").items) :
           EveryNodeHasChildren(Get(node, "children").items[i])

\* the text read is a payload of the current version whose openings have
\* their id, name and trainAs and a tree that at most lacks children members
ReadPartialTrees ==
    /\ ReadPayload
    /\ Get(loaded.json.doc, "schemaVersion") = Num(SCHEMA_VERSION)
    /\ IsArray(Get(loaded.json.doc, "openings"))
    /\ \A i \in 1..Len(Get(loaded.json.doc, "openings").items) :
           LET o == Get(loaded.json.doc, "openings").items[i]
           IN  /\ o.t = "object"
               /\ Truthy(Get(o, "id"))
               /\ Truthy(Get(o, "name"))
               /\ Truthy(Get(o, "trainAs"))
               /\ Get(o, "root").t = "object"
               /\ PartialTree(Get(o, "root"))

\* C22: reading a payload whose trees lack the children member on some nodes,
\* at whatever depth (the root included), does not fail, and every node of
\* every tree of the state read has a children array.
C22_MissingChildrenFilled ==
    ReadPartialTrees
        => /\ ~loaded.threw
           /\ \A i \in 1..Len(OpeningsOf(loaded.state)) :
                  EveryNodeHasChildren(Get(OpeningsOf(loaded.state)[i], "root"))

-----------------------------------------------------------------------------
(* Claims on sessions sharing one tree: SpecShared *)

\* the path of session s is a chain in the tree: it starts at the root and
\* every entry is among the children of the entry before it
ValidChain(s) ==
    /\ path[s][1] = Root
    /\ \A i \in 1..(Len(path[s]) - 1) :
           path[s][i + 1] \in Range(nodeChildren[path[s][i]])

\* C23: with several sessions over one tree, the children changed by
\* addVariationAndGo and deleteCurrentAndGoParent alone, after any interleaving
\* of the sessions' operations every session's path is a chain in the tree
\* and no node has two children with the same move.
C23_SharedPathsValid ==
    /\ \A s \in Sessions : ValidChain(s)
    /\ \A n \in NodeIds :
           \A i, j \in 1..Len(nodeChildren[n]) :
               i # j => ~sameMove(nodeMove[nodeChildren[n][i]],
                                  nodeMove[nodeChildren[n][j]])

-----------------------------------------------------------------------------
(* Claims on the app's move handler: SpecApp *)

\* C24: a board move that comes while a promotion choice is pending is
\* ignored by the move handler: the tree, the session path (the line and the
\* cursor on it), the game and the pending promotion stay as they are.
C24_PendingPromotionIgnoresMove ==
    [][(appRes'.op = "onUserMove" /\ Truthy(appRes'.pending))
           => UNCHANGED <<nodeMove, nodeChildren, path, game, promoPick>>]_vars

-----------------------------------------------------------------------------
(* Claims on the PGN import: SpecPgn *)

\* C25: whenever applyPgnFromInput returns false, for an empty text, a text
\* with a FEN header or a text the validator cannot load, fullLine, viewPly
\* and fullPgn are what they were before the call.
C25_FailedImportKeepsLine ==
    [][(pgnRes'.op = "applyPgnFromInput" /\ ~pgnRes'.ret)
           => UNCHANGED <<fullLine, viewPly, fullPgn>>]_vars

\* C25 witness: with the cursor inside a line of two moves, a text whose
\* second move cannot be played was refused, and the game stands at the
\* cursor again.
C25_Witness ==
    /\ pgnRes.op = "applyPgnFromInput"
    /\ ~pgnRes.ret
    /\ pgnRes.text = PgnText(FALSE, <<"e4", "e4">>, TRUE)
    /\ Len(fullLine) = 2
    /\ viewPly = 1
    /\ game = SubSeq(fullLine, 1, 1)
    /\ fullPgn = GamePgn(fullLine)

-----------------------------------------------------------------------------
(* Claims on repeated navigation: SpecTimeline *)

\* C26: goToPly(ply) called again right after goToPly(ply), for any ply
\* (negative, on the line or beyond it), changes nothing: viewPly, fullLine and
\* the replayed game are what the first call left.
C26_GoToPlyIdempotent ==
    [][(tlRes.op = "goToPly" /\ tlRes'.op = "goToPly" /\ tlRes'.ply = tlRes.ply)
           => (viewPly' = viewPly /\ fullLine' = fullLine /\ game' = game)]_vars

\* C26 witness: goToPly was called for a ply beyond a line of two or more
\* moves when the cursor already stood where that call puts it, as a first
\* call leaves it; cursor and game are at the end of the line.
C26_Witness ==
    /\ tlRes.op = "goToPly"
    /\ Len(fullLine) >= 2
    /\ tlRes.ply > Len(fullLine)
    /\ tlRes.at = Len(fullLine)
    /\ viewPly = Len(fullLine)
    /\ game = fullLine

-----------------------------------------------------------------------------
(* Claims on the pure functions: SpecPure *)

\* the line and the ply of the call
CallLine == call.args[1]
CallPly  == call.args[2]

\* C27 as stated: for every line and every integer viewPly, computeLastMove
\* gives null if viewPly <= 0, and otherwise the line has a move at index
\* viewPly - 1 and its [from, to] pair is what is given.
C27_LastMoveAtCursor ==
    call.fn = "computeLastMove"
        => IF CallPly <= 0 THEN call.out = <<Null, Null>>
           ELSE /\ CallPly <= Len(CallLine)
                /\ call.out = <<CallLine[CallPly].from, CallLine[CallPly].to>>

\* C27 amended: computeLastMove gives null if viewPly <= 0 or the line is
\* empty, and otherwise the [from, to] pair of the move at index
\* min(viewPly, fullLine.length) - 1: the last move of the line for every
\* viewPly beyond it.
C27_LastMoveAtClampedCursor ==
    call.fn = "computeLastMove"
        => IF CallPly <= 0 \/ CallLine = <<>> THEN call.out = <<Null, Null>>
           ELSE LET k == Min(CallPly, Len(CallLine))
                IN  call.out = <<CallLine[k].from, CallLine[k].to>>

\* C27 witness: computeLastMove was asked for a ply beyond a line of two
\* moves and gave the pair of the second.
C27_Witness ==
    /\ call.fn = "computeLastMove"
    /\ Len(CallLine) = 2
    /\ CallPly > 2
    /\ call.out = <<CallLine[2].from, CallLine[2].to>>
    /\ call.out # <<CallLine[1].from, CallLine[1].to>>

\* C28 as stated: for every line and every integer viewPly, branchLineIfNeeded
\* gives the same line with cut=false when viewPly >= fullLine.length, and
\* otherwise cut=true, basePly = viewPly and the first viewPly entries.
C28_BranchAtCursor ==
    call.fn = "branchLineIfNeeded"
        => IF CallPly >= Len(CallLine)
           THEN call.out.newLine = CallLine /\ ~call.out.cut
           ELSE /\ call.out.cut
                /\ call.out.basePly = CallPly
                /\ call.out.newLine = SubSeq(CallLine, 1, CallPly)

\* C28 amended: with p = max(viewPly, 0), branchLineIfNeeded gives the same
\* line with cut=false and basePly = fullLine.length when p >= fullLine.length,
\* and otherwise the first p entries with cut=true and basePly = p.
C28_BranchAtClampedCursor ==
    call.fn = "branchLineIfNeeded"
        => LET p == Max(CallPly, 0)
           IN  IF p >= Len(CallLine)
               THEN /\ call.out.newLine = CallLine
                    /\ ~call.out.cut
                    /\ call.out.basePly = Len(CallLine)
               ELSE /\ call.out.cut
                    /\ call.out.basePly = p
                    /\ call.out.newLine = SubSeq(CallLine, 1, p)

\* C28 witness: branchLineIfNeeded was asked for a negative ply on a line of
\* two moves and cut it down to nothing, with basePly 0.
C28_Witness ==
    /\ call.fn = "branchLineIfNeeded"
    /\ Len(CallLine) = 2
    /\ CallPly < 0
    /\ call.out.cut
    /\ call.out.newLine = <<>>
    /\ call.out.basePly = 0

\* the two strings of the call, and the first four fields of a string
FenA == call.args[1]
FenB == call.args[2]
FirstFour(fen) == SubSeq(fen.s.fields, 1, 4)

\* a FEN string in the sense of the claims: a string of at least four fields
IsFen(fen) == fen.t = "string" /\ Len(fen.s.fields) >= 4

\* C29: of two FEN strings, those that agree on piece placement, side to move,
\* castling rights and en-passant square get the same key, whatever their
\* counters and the white space around them, and those that differ in one of
\* the four get different keys; neither call throws.
C29_KeyIsFirstFourFields ==
    (call.fn = "positionKeyFromFen" /\ IsFen(FenA) /\ IsFen(FenB))
        => /\ ~call.out[1].threw /\ ~call.out[2].threw
           /\ (call.out[1].value = call.out[2].value)
                  <=> (FirstFour(FenA) = FirstFour(FenB))

\* C29 witness: two strings that differ in the half-move counter and in the
\* white space around them got one key.
C29_Witness ==
    /\ call.fn = "positionKeyFromFen"
    /\ IsFen(FenA) /\ IsFen(FenB)
    /\ Len(FenA.s.fields) = 6 /\ Len(FenB.s.fields) = 6
    /\ FenA.s.fields[5] # FenB.s.fields[5]
    /\ FenA.s.pad # FenB.s.pad
    /\ call.out[1].value = call.out[2].value


\* the legacy PGN and the studies handed to migrateLegacyPgn, and the number
\* of studies of a list that carry the migration's name
LegacyOf(c) == c.args[1]
ExistingOf(c) == c.args[2]
Migrated(list) == { i \in DOMAIN list : list[i].name = "Migrated opening" }

\* C30: migrateLegacyPgn returns a non-empty list of studies as it is with the
\* first study active, so a call on the result of the call before it, with the
\* same legacy PGN, returns that result again and adds no second "Migrated
\* opening"; with no studies and a legacy PGN it returns exactly one study,
\* named "Migrated opening", white, holding the PGN, and active.
C30_MigratesAtMostOnce ==
    [][ call'.fn = "migrateLegacyPgn"
          => /\ Len(ExistingOf(call')) > 0
                  => /\ call'.out.studies = ExistingOf(call')
                     /\ call'.out.activeStudyId = Str(ExistingOf(call')[1].id)
             /\ (Len(ExistingOf(call')) = 0 /\ Truthy(LegacyOf(call')))
                  => /\ Len(call'.out.studies) = 1
                     /\ call'.out.studies[1].name = "Migrated opening"
                     /\ call'.out.studies[1].color = "white"
                     /\ call'.out.studies[1].pgn = LegacyOf(call')
                     /\ call'.out.activeStudyId = Str(call'.out.studies[1].id)
             /\ call.fn = "migrateLegacyPgn"
                  => /\ call'.out = call.out
                     /\ Cardinality(Migrated(call'.out.studies))
                            = Cardinality(Migrated(call.out.studies)) ]_vars

\* C30 witness: the one study a migration made of the legacy PGN was migrated
\* again, and came back alone.
C30_Witness ==
    /\ call.fn = "migrateLegacyPgn"
    /\ Truthy(LegacyOf(call))
    /\ Len(ExistingOf(call)) = 1
    /\ ExistingOf(call)[1].name = "Migrated opening"
    /\ ExistingOf(call)[1].pgn = LegacyOf(call)
    /\ call.out.studies = ExistingOf(call)


-----------------------------------------------------------------------------
(* Claims on failing callbacks and single extension: SpecTraining *)

\* C31: when the expected move is played on the user's turn and the advancing
\* setGameToPly call (to viewPly + 2 over a recorded reply, to viewPly + 1
\* otherwise) throws, the controller calls setGameToPly(viewPly) next, makes
\* no further call, and returns null whether or not that second call throws.
C31_FailedAdvanceRollsBack ==
    (trIn.called /\ UsersTurn /\ MatchesExpected /\ Len(trCalls) >= 1 /\ trCalls[1].threw)
        => /\ trCalls[1].fn = "setGameToPly"
           /\ trCalls[1].arg \in {trIn.viewPly + 1, trIn.viewPly + 2}
           /\ Len(trCalls) = 2
           /\ trCalls[2].fn = "setGameToPly"
           /\ trCalls[2].arg = trIn.viewPly
           /\ trRes.kind = "null"

\* C31 witness: the advance over a recorded reply threw, the restoring call
\* threw as well, and null came back.
C31_Witness ==
    /\ trIn.called
    /\ UsersTurn
    /\ MatchesExpected
    /\ Len(trCalls) = 2
    /\ trCalls[1].threw
    /\ trCalls[1].arg = trIn.viewPly + 2
    /\ trCalls[2].threw
    /\ trRes.kind = "null"


-----------------------------------------------------------------------------
(* Claims on going forward and on the reasons of deletion: SpecTree *)

\* C32: goForwardIfExists(session, move) succeeds exactly when
\* isExpectedMove(session, move) holds before the call; on success the path is
\* the old path with one node appended, that node is the returned one, it is
\* a child of the old current node and its move equals the argument under
\* sameMove; the tree is as it was.
C32_ForwardIffExpected ==
    [][\A s \in Sessions, m \in TreeMoves :
          GoForwardStep(s, m)
              => /\ treeRes'.ok <=> isExpectedMove(s, m)
                 /\ treeRes'.ok
                        => /\ path'[s] = Append(path[s], treeRes'.node)
                           /\ Len(path'[s]) = Len(path[s]) + 1
                           /\ Last(path'[s]) \in Range(nodeChildren[currentNode(s)])
                           /\ sameMove(nodeMove[Last(path'[s])], m)
                           /\ TreeUntouched
                 /\ ~treeRes'.ok => treeRes'.reason = "no-such-child"]_vars

\* C32 witness: goForwardIfExists followed the second child of a node below
\* the root.
C32_Witness ==
    /\ treeRes.op = "goForwardIfExists"
    /\ treeRes.ok
    /\ Len(path[1]) = 3
    /\ Len(nodeChildren[path[1][2]]) = 2
    /\ nodeChildren[path[1][2]][2] = currentNode(1)

\* C40: with one session, deleteCurrentAndGoParent never reports not-a-child:
\* below the root, the current node is among the children of the node before
\* it on the path.
C40_NeverNotAChild ==
    /\ treeRes.reason # "not-a-child"
    /\ \A s \in Sessions :
           Len(path[s]) > 1
               => IndexOf(nodeChildren[path[s][Len(path[s]) - 1]], currentNode(s)) > 0

\* C40 witness: a leaf one level below a child of the root was found among
\* its parent's children and deleted; the cursor is on the parent, which
\* keeps its other child.
C40_Witness ==
    /\ treeRes.op = "deleteCurrentAndGoParent"
    /\ treeRes.ok
    /\ Len(path[1]) = 2
    /\ Len(nodeChildren[currentNode(1)]) = 1


-----------------------------------------------------------------------------
(* Claims on undo and redo: SpecApp *)

\* C39: a redo that moves the cursor puts the session on the path it was on
\* just before the undo that pushed the redone move, in edit mode and in
\* train mode.
C39_RedoRestoresUndonePath ==
    [][(appRes'.op = "redo" /\ path' # path /\ undoPath # <<>>)
           => path'[1] = Last(undoPath)]_vars

-----------------------------------------------------------------------------
(* Claims on the studies: SpecStudies *)

\* C38: after boot and after every deleteStudy, selectStudy and new-study
\* action, also across a reload of the page, activeStudyId is null or the id
\* of a study of the list.
C38_ActiveStudyListed ==
    \/ activeStudyId = JsNull
    \/ \E i \in DOMAIN studies : Str(studies[i].id) = activeStudyId

-----------------------------------------------------------------------------
(* Claims on training in the timeline app: SpecTrain and SpecAutoplay *)

\* C33: in training mode no board move and no selection of a promotion
\* square shortens fullLine or replaces one of its moves; fullLine changes
\* only by moves appended while the cursor is at its end.
C33_TrainingOnlyAppends ==
    [][(mode = "train" /\ appRes'.op \in {"move", "select"} /\ fullLine' # fullLine)
           => /\ Len(fullLine') > Len(fullLine)
              /\ SubSeq(fullLine', 1, Len(fullLine)) = fullLine
              /\ viewPly = Len(fullLine)]_vars

\* C34: once the mode is edit again, no timer callback changes viewPly or the
\* game.
C34_TimersLeaveEditModeAlone ==
    [][(mode = "edit" /\ appRes'.op = "timer")
           => (viewPly' = viewPly /\ game' = game)]_vars

\* C35: in training mode, whenever no timer callback is pending, the game
\* holds the first viewPly moves of fullLine and no more.
C35_GameIsLineToCursor ==
    (mode = "train" /\ timers = <<>>) => game = SubSeq(fullLine, 1, viewPly)

\* C36: after training mode is entered, with the board left alone, the
\* autoplay comes to a stop: in the end no callback is pending any more, and
\* the cursor then stands on a ply of the user or at the end of the line.
C36_AutoplayStops ==
    [](mode = "train"
          => <>[](/\ timers = <<>>
                  /\ \/ isUsersTurn(studyColor, viewPly)
                     \/ viewPly = Len(fullLine)))

\* the autoplay has played the opponent's first move and stopped
C36_Witness ==
    /\ mode = "train"
    /\ appRes.op = "timer"
    /\ timers = <<>>
    /\ viewPly = 1
    /\ game = SubSeq(fullLine, 1, 1)
    /\ ~isUsersTurn(studyColor, 0)

=============================================================================
